---------------------------- MODULE Spec2Model ----------------------------
(***************************************************************************)
(* A model of the multi-mechanism property framework of pepc                *)
(* (pepclibs/_PropsClassBase.py) together with the per-CPU read and write   *)
(* hooks of the 'Power' sub-class (pepclibs/Power.py).                      *)
(*                                                                         *)
(* Python values are encoded as strings: the booleans True/False as        *)
(* "True"/"False", None as "None".  An exception is a pair (exc, why):      *)
(* 'exc' is the Python exception class, 'why' names the raise statement.    *)
(***************************************************************************)
EXTENDS Integers, Sequences, FiniteSets, TLC

VARIABLES topo,      \* the CPU topology provided by CPUInfo: cpu -> [package, die, core]
          props,     \* PropsClassBase._props: the registry built by _init_props_dict()
          avail,     \* platform: mechanism name -> set of CPUs on which it is supported
          hwval,     \* platform: property name -> [cpu -> value stored in the hardware]
          last,      \* the last public call: its arguments, its outcome and its effects
          prev,      \* the set call that a read-back follows
          ep,        \* an EPB, EPP or ASPM object, its host and its last calls
          own,       \* a framework object and the accessors it refers to
          st         \* a _PropsSetter object, its MSR transaction and the saved snapshot

vars == <<topo, props, avail, hwval, last, prev, ep, own, st>>

\* Longest explicit mechanism list passed by a caller.
MaxMnames == 2

None == "None"

\* The value of a variable that belongs to an object the behaviour does not construct.
Unused == "unused"

(***************************************************************************)
(* Generic helpers.                                                        *)
(***************************************************************************)
Range(s) == {s[i] : i \in 1..Len(s)}

Min(S) == CHOOSE x \in S : \A y \in S : x <= y

RECURSIVE SortedSeq(_)
SortedSeq(S) == IF S = {} THEN <<>> ELSE <<Min(S)>> \o SortedSeq(S \ {Min(S)})

SeqsUpTo(S, n) == UNION {[1..k -> S] : k \in 0..n}

\* Trivial.list_dedup(): drop repeated elements, keep the first occurrences in order.
RECURSIVE list_dedup(_)
list_dedup(s) ==
    IF s = <<>> THEN <<>>
    ELSE LET front == list_dedup(SubSeq(s, 1, Len(s) - 1))
             x == s[Len(s)]
         IN IF x \in Range(front) THEN front ELSE Append(front, x)

\* str.lower() on the strings callers pass as values.
Lower(s) ==
    CASE s = "ON" -> "on"
      [] s = "Disable" -> "disable"
      [] s = "PC6" -> "pc6"
      [] s = "True" -> "true"
      [] s = "False" -> "false"
      [] OTHER -> s

(***************************************************************************)
(* Topology (CPUInfo).  Die and core numbers are relative to the package.  *)
(***************************************************************************)
CPUs == {0, 1, 2}

Loc(p, d, c) == [package |-> p, die |-> d, core |-> c]

\* One package, one die, cores {0,1} and {2}.
TopoOneDie == <<Loc(0, 0, 0), Loc(0, 0, 0), Loc(0, 0, 1)>>
\* One package, dies {0,1} and {2}.
TopoTwoDies == <<Loc(0, 0, 0), Loc(0, 0, 1), Loc(0, 1, 2)>>
\* Package 0 has one die, package 1 has two dies.
TopoMixed == <<Loc(0, 0, 0), Loc(1, 0, 0), Loc(1, 1, 1)>>
\* Two packages, {0,1} and {2}, one die each.
TopoTwoPkgs == <<Loc(0, 0, 0), Loc(0, 0, 0), Loc(1, 0, 0)>>

Topologies == {TopoOneDie, TopoTwoDies, TopoMixed, TopoTwoPkgs}

LocOf(t, cpu) == t[cpu + 1]

get_cpus(t) == CPUs
get_packages(t) == {LocOf(t, c).package : c \in CPUs}
get_dies(t, package) == {LocOf(t, c).die : c \in {x \in CPUs : LocOf(t, x).package = package}}

package_to_cpus(t, package) == SortedSeq({c \in CPUs : LocOf(t, c).package = package})

dies_to_cpus(t, die, package) ==
    SortedSeq({c \in CPUs : LocOf(t, c).package = package /\ LocOf(t, c).die = die})

\* The key of the unit of level 'sname' that 'cpu' belongs to.
UnitOf(t, sname, cpu) ==
    CASE sname = "package" -> <<LocOf(t, cpu).package>>
      [] sname = "die" -> <<LocOf(t, cpu).package, LocOf(t, cpu).die>>
      [] sname = "core" -> <<LocOf(t, cpu).package, LocOf(t, cpu).core>>
      [] OTHER -> <<cpu>>

UnitCPUs(t, sname, cpu) == {c \in CPUs : UnitOf(t, sname, c) = UnitOf(t, sname, cpu)}

\* CPUInfo.cpus_div_cores/dies/packages(): the leftover CPUs of 'cpus', those that do not
\* make up a whole unit of level 'sname'.
cpus_div_rem(t, sname, cpus) == {c \in cpus : ~(UnitCPUs(t, sname, c) \subseteq cpus)}

(***************************************************************************)
(* The registry.                                                           *)
(***************************************************************************)
MECHANISMS ==
    [sysfs |-> [writable |-> TRUE],
     msr   |-> [writable |-> TRUE],
     cppc  |-> [writable |-> FALSE],
     doc   |-> [writable |-> FALSE]]

Mnames == {"sysfs", "msr", "cppc"}

Prop(sname, mnames, writable, type) ==
    [sname |-> sname, mnames |-> mnames, writable |-> writable, type |-> type]

\* The 'PROPS' dictionary of the sub-class.  "tdp" and "ppl1_enable" are the entries of
\* Power.PROPS; the others stand for properties of the other scopes.
PROPS ==
    [tdp              |-> Prop("package", <<"msr">>, FALSE, "float"),
     ppl1_enable      |-> Prop("package", <<"msr">>, TRUE, "bool"),
     pkg_cstate_limit |-> Prop("package", <<"msr">>, TRUE, "str"),
     uncore_ratio     |-> Prop("die", <<"msr", "cppc">>, TRUE, "str"),
     c1_demotion      |-> Prop("core", <<"msr">>, TRUE, "bool"),
     epb              |-> Prop("CPU", <<"sysfs", "msr">>, TRUE, "str"),
     turbo            |-> Prop("global", <<"sysfs", "msr">>, TRUE, "bool")]

Pnames == DOMAIN PROPS
UnknownPname == "bogus"

\* The I/O scope the platform code of the sub-class assigns after _init_props_dict():
\* the "Package C-state Limit" MSR has core scope.
IoScopeOverride == [pkg_cstate_limit |-> "core"]

\* Mutant: the I/O scope is not initialized from the scope.
_init_props_dict_noio(declared) ==
    [p \in DOMAIN declared |->
        [sname |-> declared[p].sname, iosname |-> None,
         mnames |-> declared[p].mnames, writable |-> declared[p].writable,
         type |-> declared[p].type]]

_init_props_dict(declared) ==
    LET base == [p \in DOMAIN declared |->
                    [sname |-> declared[p].sname, iosname |-> declared[p].sname,
                     mnames |-> declared[p].mnames, writable |-> declared[p].writable,
                     type |-> declared[p].type]]
    IN [p \in DOMAIN declared |->
           IF p \in DOMAIN IoScopeOverride
           THEN [base[p] EXCEPT !.iosname = IoScopeOverride[p]]
           ELSE base[p]]


(***************************************************************************)
(* Call records.                                                           *)
(***************************************************************************)
NoExc == [exc |-> "", why |-> ""]
Raise(exc, why) == [exc |-> exc, why |-> why]

\* The property value dictionary.  Fields that a per-die or per-package dictionary does
\* not have are -1.
Pvinfo(cpu, die, package, val, mname) ==
    [cpu |-> cpu, die |-> die, package |-> package, val |-> val, mname |-> mname]

NoCall ==
    [op |-> "none", pname |-> "", given |-> FALSE, mnames |-> <<>>, val |-> "",
     cpus |-> {}, dies |-> {}, packages |-> {},
     exc |-> "", why |-> "", ret |-> <<>>, retm |-> "",
     reads |-> <<>>, writes |-> <<>>, entered |-> FALSE,
     rem |-> {}, pvinfos |-> <<>>, disagreed |-> <<>>]

(***************************************************************************)
(* Validation of property and mechanism names.                             *)
(***************************************************************************)
_validate_pname(pname) ==
    IF pname \notin DOMAIN props THEN Raise("Error", "unknown_pname") ELSE NoExc

\* _validate_mname() without the check of the 'writable' flag of the mechanism.
_validate_mname_noreadonly(mname, pname, allow_readonly) ==
    IF pname \notin DOMAIN props THEN Raise("KeyError", "props_lookup")
    ELSE IF mname \notin Range(props[pname].mnames)
         THEN Raise("ErrorNotSupported", "undeclared_mname")
    ELSE NoExc

\* 'pname' is always given by the callers modelled here ('if pname:' is true), so
\* 'self._props[pname]' is evaluated first and raises KeyError for an unknown name.
_validate_mname(mname, pname, allow_readonly) ==
    IF pname \notin DOMAIN props THEN Raise("KeyError", "props_lookup")
    ELSE IF mname \notin Range(props[pname].mnames)
         THEN Raise("ErrorNotSupported", "undeclared_mname")
    ELSE IF ~allow_readonly /\ ~MECHANISMS[mname].writable
         THEN Raise("Error", "readonly_mname")
    ELSE NoExc

\* The exception of the first mechanism of 'mnames' that does not validate.
RECURSIVE ValidateAll(_, _, _)
ValidateAll(mnames, pname, allow_readonly) ==
    IF mnames = <<>> THEN NoExc
    ELSE LET e == _validate_mname(Head(mnames), pname, allow_readonly)
         IN IF e.exc # "" THEN e ELSE ValidateAll(Tail(mnames), pname, allow_readonly)

\* 'given' is FALSE when the caller passed mnames=None.
_normalize_mnames(given, mnames, pname, allow_readonly) ==
    IF ~given
    THEN IF pname \notin DOMAIN props
         THEN [exc |-> "KeyError", why |-> "props_lookup", mnames |-> <<>>]
         ELSE [exc |-> "", why |-> "", mnames |-> props[pname].mnames]
    ELSE LET e == ValidateAll(mnames, pname, allow_readonly)
         IN IF e.exc # "" THEN [exc |-> e.exc, why |-> e.why, mnames |-> <<>>]
            ELSE [exc |-> "", why |-> "", mnames |-> list_dedup(mnames)]

\* PropsClassBase._set_sname(): nothing to do when the scope name is already set.
_set_sname(pname) ==
    IF props[pname].sname # None THEN NoExc ELSE Raise("Error", "bug_method_not_defined")

(***************************************************************************)
(* Targets (CPUInfo.normalize_cpus/packages/dies).                         *)
(***************************************************************************)
normalize_cpus(cpus) ==
    IF cpus \subseteq get_cpus(topo)
    THEN [exc |-> "", why |-> "", list |-> SortedSeq(cpus)]
    ELSE [exc |-> "Error", why |-> "invalid_target", list |-> <<>>]

normalize_packages(packages) ==
    IF packages \subseteq get_packages(topo)
    THEN [exc |-> "", why |-> "", list |-> SortedSeq(packages)]
    ELSE [exc |-> "Error", why |-> "invalid_target", list |-> <<>>]

normalize_dies(dies, package) ==
    IF dies \subseteq get_dies(topo, package)
    THEN [exc |-> "", why |-> "", list |-> SortedSeq(dies)]
    ELSE [exc |-> "Error", why |-> "invalid_target", list |-> <<>>]

(***************************************************************************)
(* The per-CPU read path.                                                  *)
(***************************************************************************)
\* Power._get_cpu_prop(): the value read with mechanism 'mname', None when the read
\* raises ErrorNotSupported.
_get_cpu_prop(pname, cpu, mname) ==
    IF cpu \in avail[mname] THEN hwval[pname][cpu] ELSE None

_construct_pvinfo(pname, cpu, mname, val) ==
    Pvinfo(cpu, -1, -1,
           IF val = "True" THEN "on" ELSE IF val = "False" THEN "off" ELSE val,
           mname)

\* _get_cpu_prop_pvinfo() without the 'break': every mechanism is tried, the last one
\* that yields a value wins.
_get_cpu_prop_pvinfo_nobreak(pname, cpu, mnames) ==
    LET mn == IF mnames = <<>> THEN props[pname].mnames ELSE mnames
        hits == {i \in 1..Len(mn) : _get_cpu_prop(pname, cpu, mn[i]) # None}
        k == IF hits = {} THEN Len(mn) ELSE CHOOSE i \in hits : \A j \in hits : j <= i
        mname == IF Len(mn) = 0 THEN None ELSE mn[k]
        val == IF hits = {} THEN None ELSE _get_cpu_prop(pname, cpu, mn[k])
    IN [pvinfo |-> _construct_pvinfo(pname, cpu, mname, val),
        reads |-> [i \in 1..Len(mn) |-> <<cpu, mn[i]>>]]

\* Returns the pvinfo and the sequence of <<cpu, mname>> reads that were made.
_get_cpu_prop_pvinfo(pname, cpu, mnames) ==
    LET mn == IF mnames = <<>> THEN props[pname].mnames ELSE mnames
        hits == {i \in 1..Len(mn) : _get_cpu_prop(pname, cpu, mn[i]) # None}
        k == IF hits = {} THEN Len(mn) ELSE Min(hits)
        mname == IF Len(mn) = 0 THEN None ELSE mn[k]
        val == IF hits = {} THEN None ELSE _get_cpu_prop(pname, cpu, mn[k])
    IN [pvinfo |-> _construct_pvinfo(pname, cpu, mname, val),
        reads |-> [i \in 1..k |-> <<cpu, mn[i]>>]]

RECURSIVE ReadCPUs(_, _, _)
ReadCPUs(pname, cpus, mnames) ==
    IF cpus = <<>> THEN [ret |-> <<>>, reads |-> <<>>]
    ELSE LET r == _get_cpu_prop_pvinfo(pname, Head(cpus), mnames)
             rest == ReadCPUs(pname, Tail(cpus), mnames)
         IN [ret |-> <<r.pvinfo>> \o rest.ret, reads |-> r.reads \o rest.reads]

\* The outcome of get_prop_cpus(): exception, yielded pvinfos, reads made.
get_prop_cpus(pname, cpus, given, mnames) ==
    LET e1 == _validate_pname(pname)
        nm == _normalize_mnames(given, mnames, pname, TRUE)
        nc == normalize_cpus(cpus)
        r == ReadCPUs(pname, nc.list, nm.mnames)
    IN IF e1.exc # "" THEN [exc |-> e1.exc, why |-> e1.why, ret |-> <<>>, reads |-> <<>>]
       ELSE IF nm.exc # "" THEN [exc |-> nm.exc, why |-> nm.why, ret |-> <<>>, reads |-> <<>>]
       ELSE IF nc.exc # "" THEN [exc |-> nc.exc, why |-> nc.why, ret |-> <<>>, reads |-> <<>>]
       ELSE [exc |-> "", why |-> "", ret |-> r.ret, reads |-> r.reads]

\* get_cpu_prop(): the first pvinfo yielded by get_prop_cpus() for the single CPU.
get_cpu_prop(pname, cpu, mnames) == get_prop_cpus(pname, {cpu}, TRUE, mnames)

(***************************************************************************)
(* The per-die and per-package read paths.                                 *)
(***************************************************************************)
_validate_prop_vs_scope(pname, sname) ==
    LET base == IF sname = "die" THEN {"die", "package", "global"} ELSE {"package", "global"}
        ok_scopes == IF Cardinality(get_dies(topo, 0)) = 1 THEN base \cup {"die"} ELSE base
    IN IF sname \notin {"die", "package"} THEN Raise("Error", "bug_scope_not_implemented")
       ELSE IF props[pname].sname \notin ok_scopes THEN Raise("Error", "cross_scope")
       ELSE NoExc

\* _validate_prop_vs_ioscope() that compares every pvinfo with itself.
_validate_prop_vs_ioscope_selfcmp(pname, cpus, mnames) ==
    [exc |-> "", why |-> "", reads |-> ReadCPUs(pname, cpus, mnames).reads,
     pvinfos |-> <<>>, disagreed |-> <<>>]

\* Reads 'pname' on every CPU of 'cpus' and compares each value with the value of the
\* first CPU ('prev_cpu' is assigned once).
_validate_prop_vs_ioscope(pname, cpus, mnames) ==
    LET r == ReadCPUs(pname, cpus, mnames)
        differ == {i \in 2..Len(cpus) : r.ret[i].val # r.ret[1].val}
    IN IF differ = {}
       THEN [exc |-> "", why |-> "", reads |-> r.reads, pvinfos |-> <<>>, disagreed |-> <<>>]
       ELSE [exc |-> "ErrorUsePerCPU", why |-> "use_per_cpu", reads |-> r.reads,
             pvinfos |-> r.ret, disagreed |-> <<r.ret[1], r.ret[Min(differ)]>>]

\* The dictionary of one die or package ('die' is -1 for a package), read through the
\* CPUs 'cpus' of the unit.
UnitPvinfo(pname, package, die, cpus, mnames) ==
    LET prop == props[pname]
        chk == IF prop.sname # prop.iosname
               THEN _validate_prop_vs_ioscope(pname, cpus, mnames)
               ELSE [exc |-> "", why |-> "", reads |-> <<>>, pvinfos |-> <<>>,
                     disagreed |-> <<>>]
        g == get_cpu_prop(pname, cpus[1], mnames)
    IN IF chk.exc # ""
       THEN [exc |-> chk.exc, why |-> chk.why, ret |-> <<>>, reads |-> chk.reads,
             pvinfos |-> chk.pvinfos, disagreed |-> chk.disagreed]
       ELSE IF g.exc # ""
       THEN [exc |-> g.exc, why |-> g.why, ret |-> <<>>, reads |-> chk.reads \o g.reads,
             pvinfos |-> <<>>, disagreed |-> <<>>]
       ELSE [exc |-> "", why |-> "",
             ret |-> <<Pvinfo(-1, die, package, g.ret[1].val, g.ret[1].mname)>>,
             reads |-> chk.reads \o g.reads, pvinfos |-> <<>>, disagreed |-> <<>>]

_get_die_prop_pvinfo(pname, package, die, mnames) ==
    UnitPvinfo(pname, package, die, dies_to_cpus(topo, die, package), mnames)

_get_package_prop_pvinfo(pname, package, mnames) ==
    UnitPvinfo(pname, package, -1, package_to_cpus(topo, package), mnames)

NoUnits == [exc |-> "", why |-> "", ret |-> <<>>, reads |-> <<>>, pvinfos |-> <<>>,
            disagreed |-> <<>>]

Failed(e) == [NoUnits EXCEPT !.exc = e.exc, !.why = e.why]

\* A generator that raises keeps what it has yielded: 'first' followed by 'rest', where
\* 'rest' is not run when 'first' raised.
Then(first, rest) ==
    IF first.exc # "" THEN first
    ELSE [exc |-> rest.exc, why |-> rest.why, ret |-> first.ret \o rest.ret,
          reads |-> first.reads \o rest.reads, pvinfos |-> rest.pvinfos,
          disagreed |-> rest.disagreed]

RECURSIVE ReadDies(_, _, _, _)
ReadDies(pname, package, dies, mnames) ==
    IF dies = <<>> THEN NoUnits
    ELSE Then(_get_die_prop_pvinfo(pname, package, Head(dies), mnames),
              ReadDies(pname, package, Tail(dies), mnames))

\* 'dies' is the caller's dictionary as a set of <<package, die>> pairs.
DiesOf(dies, package) == {pd[2] : pd \in {x \in dies : x[1] = package}}
DictPackages(dies) == {pd[1] : pd \in dies}

RECURSIVE ReadPackagesDies(_, _, _, _)
ReadPackagesDies(pname, packages, dies, mnames) ==
    IF packages = <<>> THEN NoUnits
    ELSE LET nd == normalize_dies(DiesOf(dies, Head(packages)), Head(packages))
         IN IF nd.exc # "" THEN Failed(nd)
            ELSE Then(ReadDies(pname, Head(packages), nd.list, mnames),
                      ReadPackagesDies(pname, Tail(packages), dies, mnames))

get_prop_dies(pname, dies, given, mnames) ==
    LET e1 == _validate_pname(pname)
        nm == _normalize_mnames(given, mnames, pname, TRUE)
        e2 == _validate_prop_vs_scope(pname, "die")
        np == normalize_packages(DictPackages(dies))
    IN IF e1.exc # "" THEN Failed(e1)
       ELSE IF nm.exc # "" THEN Failed(nm)
       ELSE IF e2.exc # "" THEN Failed(e2)
       ELSE IF np.exc # "" THEN Failed(np)
       ELSE ReadPackagesDies(pname, np.list, dies, nm.mnames)

RECURSIVE ReadPackages(_, _, _)
ReadPackages(pname, packages, mnames) ==
    IF packages = <<>> THEN NoUnits
    ELSE Then(_get_package_prop_pvinfo(pname, Head(packages), mnames),
              ReadPackages(pname, Tail(packages), mnames))

get_prop_packages(pname, packages, given, mnames) ==
    LET e1 == _validate_pname(pname)
        nm == _normalize_mnames(given, mnames, pname, TRUE)
        e2 == _validate_prop_vs_scope(pname, "package")
        np == normalize_packages(packages)
    IN IF e1.exc # "" THEN Failed(e1)
       ELSE IF nm.exc # "" THEN Failed(nm)
       ELSE IF e2.exc # "" THEN Failed(e2)
       ELSE IF np.exc # "" THEN Failed(np)
       ELSE ReadPackages(pname, np.list, nm.mnames)

(***************************************************************************)
(* The write paths.                                                        *)
(***************************************************************************)
\* _normalize_bool_type_value() without 'val.lower()'.
_normalize_bool_type_value_nolower(pname, val) ==
    IF val \in {"True", "False"} THEN [exc |-> "", why |-> "", val |-> val]
    ELSE IF val \in {"on", "enable"} THEN [exc |-> "", why |-> "", val |-> "True"]
    ELSE IF val \in {"off", "disable"} THEN [exc |-> "", why |-> "", val |-> "False"]
    ELSE [exc |-> "Error", why |-> "bad_bool", val |-> val]

_normalize_bool_type_value(pname, val) ==
    IF val \in {"True", "False"} THEN [exc |-> "", why |-> "", val |-> val]
    ELSE IF Lower(val) \in {"on", "enable"} THEN [exc |-> "", why |-> "", val |-> "True"]
    ELSE IF Lower(val) \in {"off", "disable"} THEN [exc |-> "", why |-> "", val |-> "False"]
    ELSE [exc |-> "Error", why |-> "bad_bool", val |-> val]

\* None of the writable properties of the registry has a unit.
_normalize_inprop(pname, val) ==
    LET e1 == _validate_pname(pname)
    IN IF e1.exc # "" THEN [exc |-> e1.exc, why |-> e1.why, val |-> val]
       ELSE IF ~props[pname].writable
       THEN [exc |-> "Error", why |-> "readonly_prop", val |-> val]
       ELSE IF props[pname].type = "bool" THEN _normalize_bool_type_value(pname, val)
       ELSE [exc |-> "", why |-> "", val |-> val]

\* _validate_cpus_vs_scope() that returns early for the core scope as it does for CPU.
_validate_cpus_vs_scope_coreok(pname, cpus) ==
    LET sname == props[pname].sname
        given == Range(cpus)
        rem_cpus == cpus_div_rem(topo, sname, given)
    IN IF sname \in {"CPU", "core"} THEN [exc |-> "", why |-> "", rem |-> {}]
       ELSE IF sname = "global"
       THEN IF get_cpus(topo) \subseteq given THEN [exc |-> "", why |-> "", rem |-> {}]
            ELSE [exc |-> "Error", why |-> "scope", rem |-> get_cpus(topo) \ given]
       ELSE IF rem_cpus = {} THEN [exc |-> "", why |-> "", rem |-> {}]
       ELSE [exc |-> "Error", why |-> "scope", rem |-> rem_cpus]

\* 'cpus' is the normalized list of CPU numbers.
_validate_cpus_vs_scope(pname, cpus) ==
    LET sname == props[pname].sname
        given == Range(cpus)
        rem_cpus == cpus_div_rem(topo, sname, given)
    IN IF sname \notin {"global", "package", "die", "core", "CPU"}
       THEN [exc |-> "Error", why |-> "bug_scope_name", rem |-> {}]
       ELSE IF sname = "CPU" THEN [exc |-> "", why |-> "", rem |-> {}]
       ELSE IF sname = "global"
       THEN IF get_cpus(topo) \subseteq given THEN [exc |-> "", why |-> "", rem |-> {}]
            ELSE [exc |-> "Error", why |-> "scope", rem |-> get_cpus(topo) \ given]
       ELSE IF rem_cpus = {} THEN [exc |-> "", why |-> "", rem |-> {}]
       ELSE [exc |-> "Error", why |-> "scope", rem |-> rem_cpus]

\* Power._do_set_prop(): write the CPUs one by one; the write of a CPU that does not
\* support the MSR feature raises ErrorNotSupported and ends the loop.
RECURSIVE _do_set_prop(_, _, _, _)
_do_set_prop(pname, val, cpus, hw) ==
    IF cpus = <<>> THEN [exc |-> "", why |-> "", hw |-> hw, writes |-> <<>>]
    ELSE IF Head(cpus) \notin avail["msr"]
    THEN [exc |-> "ErrorNotSupported", why |-> "write_not_supported", hw |-> hw,
          writes |-> <<>>]
    ELSE LET rest == _do_set_prop(pname, val, Tail(cpus),
                                  [hw EXCEPT ![pname][Head(cpus)] = val])
         IN [rest EXCEPT !.writes = <<Head(cpus)>> \o rest.writes]

\* Power._set_prop_cpus(): returns the name of the mechanism used.
_set_prop_cpus(pname, val, cpus, mnames) ==
    LET w == _do_set_prop(pname, val, cpus, hwval)
    IN [exc |-> w.exc, why |-> w.why, hw |-> w.hw, writes |-> w.writes,
        retm |-> IF w.exc = "" THEN "msr" ELSE "", entered |-> TRUE, rem |-> {}]

\* A set call that raised before the write path was entered.
Rejected(e) ==
    [exc |-> e.exc, why |-> e.why, hw |-> hwval, writes |-> <<>>, retm |-> "",
     entered |-> FALSE, rem |-> {}]

\* set_prop_cpus() that validates the CPUs against the scope after the write.
set_prop_cpus_latecheck(pname, val, cpus, given, mnames) ==
    LET nm == _normalize_mnames(given, mnames, pname, FALSE)
        nv == _normalize_inprop(pname, val)
        nc == normalize_cpus(cpus)
        e1 == _set_sname(pname)
        e2 == _validate_cpus_vs_scope(pname, nc.list)
        w == _set_prop_cpus(pname, nv.val, nc.list, nm.mnames)
    IN IF nm.exc # "" THEN Rejected(nm)
       ELSE IF nv.exc # "" THEN Rejected(nv)
       ELSE IF nc.exc # "" THEN Rejected(nc)
       ELSE IF e1.exc # "" THEN Rejected(e1)
       ELSE IF w.exc = "" /\ e2.exc # ""
       THEN [w EXCEPT !.exc = e2.exc, !.why = e2.why, !.rem = e2.rem, !.retm = ""]
       ELSE w

set_prop_cpus(pname, val, cpus, given, mnames) ==
    LET nm == _normalize_mnames(given, mnames, pname, FALSE)
        nv == _normalize_inprop(pname, val)
        nc == normalize_cpus(cpus)
        e1 == _set_sname(pname)
        e2 == _validate_cpus_vs_scope(pname, nc.list)
    IN IF nm.exc # "" THEN Rejected(nm)
       ELSE IF nv.exc # "" THEN Rejected(nv)
       ELSE IF nc.exc # "" THEN Rejected(nc)
       ELSE IF e1.exc # "" THEN Rejected(e1)
       ELSE IF e2.exc # "" THEN [Rejected(e2) EXCEPT !.rem = e2.rem]
       ELSE _set_prop_cpus(pname, nv.val, nc.list, nm.mnames)

\* The first CPU of every die of 'dies' (a sequence of <<package, die>> pairs).
RECURSIVE FirstCPUsOfDies(_)
FirstCPUsOfDies(dies) ==
    IF dies = <<>> THEN <<>>
    ELSE <<dies_to_cpus(topo, Head(dies)[2], Head(dies)[1])[1]>> \o FirstCPUsOfDies(Tail(dies))

_set_prop_dies(pname, val, dies, mnames) ==
    _set_prop_cpus(pname, val, FirstCPUsOfDies(dies), mnames)

\* The normalized dictionary as a sequence of <<package, die>> pairs, or the exception
\* raised by normalize_dies().
RECURSIVE NormalizeDict(_, _)
NormalizeDict(packages, dies) ==
    IF packages = <<>> THEN [exc |-> "", why |-> "", list |-> <<>>]
    ELSE LET nd == normalize_dies(DiesOf(dies, Head(packages)), Head(packages))
             rest == NormalizeDict(Tail(packages), dies)
         IN IF nd.exc # "" THEN nd
            ELSE IF rest.exc # "" THEN rest
            ELSE [exc |-> "", why |-> "",
                  list |-> [i \in 1..Len(nd.list) |-> <<Head(packages), nd.list[i]>>]
                           \o rest.list]

set_prop_dies(pname, val, dies, given, mnames) ==
    LET nm == _normalize_mnames(given, mnames, pname, FALSE)
        nv == _normalize_inprop(pname, val)
        e1 == _set_sname(pname)
        e2 == _validate_prop_vs_scope(pname, "die")
        np == normalize_packages(DictPackages(dies))
        nd == NormalizeDict(np.list, dies)
    IN IF nm.exc # "" THEN Rejected(nm)
       ELSE IF nv.exc # "" THEN Rejected(nv)
       ELSE IF e1.exc # "" THEN Rejected(e1)
       ELSE IF e2.exc # "" THEN Rejected(e2)
       ELSE IF np.exc # "" THEN Rejected(np)
       ELSE IF nd.exc # "" THEN Rejected(nd)
       ELSE _set_prop_dies(pname, nv.val, nd.list, nm.mnames)

RECURSIVE FirstCPUsOfPackages(_)
FirstCPUsOfPackages(packages) ==
    IF packages = <<>> THEN <<>>
    ELSE <<package_to_cpus(topo, Head(packages))[1]>> \o FirstCPUsOfPackages(Tail(packages))

_set_prop_packages(pname, val, packages, mnames) ==
    _set_prop_cpus(pname, val, FirstCPUsOfPackages(packages), mnames)

set_prop_packages(pname, val, packages, given, mnames) ==
    LET nm == _normalize_mnames(given, mnames, pname, FALSE)
        nv == _normalize_inprop(pname, val)
        e1 == _set_sname(pname)
        e2 == _validate_prop_vs_scope(pname, "package")
        np == normalize_packages(packages)
    IN IF nm.exc # "" THEN Rejected(nm)
       ELSE IF nv.exc # "" THEN Rejected(nv)
       ELSE IF e1.exc # "" THEN Rejected(e1)
       ELSE IF e2.exc # "" THEN Rejected(e2)
       ELSE IF np.exc # "" THEN Rejected(np)
       ELSE _set_prop_packages(pname, nv.val, np.list, nm.mnames)

(***************************************************************************)
(* The platform and the calls.                                             *)
(***************************************************************************)
\* The value a CPU holds right after boot, and the value an odd CPU holds.
BootVal(pname, isodd) ==
    IF PROPS[pname].type = "bool"
    THEN IF isodd THEN "True" ELSE "False"
    ELSE IF isodd THEN "PC6" ELSE "PC2"

\* The CPUs on which the sysfs and the MSR mechanisms are supported.
AvailChoices ==
    {[sysfs |-> CPUs, msr |-> CPUs, cppc |-> CPUs],
     [sysfs |-> {}, msr |-> CPUs, cppc |-> CPUs],
     [sysfs |-> {}, msr |-> {}, cppc |-> {}],
     [sysfs |-> CPUs, msr |-> {0}, cppc |-> CPUs],
     [sysfs |-> {0}, msr |-> CPUs, cppc |-> {}]}

Init ==
    /\ topo \in Topologies
    /\ props = _init_props_dict(PROPS)
    /\ avail \in AvailChoices
    /\ \E odd \in SUBSET {1} :
           hwval = [p \in Pnames |-> [c \in CPUs |-> BootVal(p, c \in odd)]]
    /\ last = NoCall
    /\ prev = NoCall
    /\ ep = Unused /\ own = Unused /\ st = Unused

CallPnames == Pnames \cup {UnknownPname}
CallMnames == SeqsUpTo(Mnames, MaxMnames)
\* CPU 7, package 5 and die 3 do not exist.
CallCPUs == (SUBSET CPUs \ {{}}) \cup {{7}}
CallPackages == (SUBSET get_packages(topo) \ {{}}) \cup {{5}}
AllDies == {<<LocOf(topo, c).package, LocOf(topo, c).die>> : c \in CPUs}
CallDies == (SUBSET AllDies \ {{}}) \cup {{<<5, 0>>}, {<<0, 3>>}}
CallVals == {"True", "False", "ON", "enable", "off", "Disable", "PC6"}

Fresh == last.op = "none"

GetCall(op, pname, given, mnames, r) ==
    [NoCall EXCEPT !.op = op, !.pname = pname, !.given = given, !.mnames = mnames,
                   !.exc = r.exc, !.why = r.why, !.ret = r.ret, !.reads = r.reads,
                   !.pvinfos = r.pvinfos, !.disagreed = r.disagreed]

SetCall(op, pname, val, given, mnames, r) ==
    [NoCall EXCEPT !.op = op, !.pname = pname, !.given = given, !.mnames = mnames,
                   !.val = val, !.exc = r.exc, !.why = r.why, !.retm = r.retm,
                   !.writes = r.writes, !.entered = r.entered, !.rem = r.rem]

GetPropCpus ==
    /\ Fresh
    /\ \E pname \in CallPnames, cpus \in CallCPUs, given \in BOOLEAN, mnames \in CallMnames :
         /\ (~given => mnames = <<>>)
         /\ LET r == get_prop_cpus(pname, cpus, given, mnames)
            IN last' = [NoCall EXCEPT !.op = "get_prop_cpus", !.pname = pname,
                            !.given = given, !.mnames = mnames, !.cpus = cpus,
                            !.exc = r.exc, !.why = r.why, !.ret = r.ret, !.reads = r.reads]
    /\ UNCHANGED <<topo, props, avail, hwval, prev, ep, own, st>>

GetPropDies ==
    /\ Fresh
    /\ \E pname \in CallPnames, dies \in CallDies, given \in BOOLEAN, mnames \in CallMnames :
         /\ (~given => mnames = <<>>)
         /\ last' = [GetCall("get_prop_dies", pname, given, mnames,
                             get_prop_dies(pname, dies, given, mnames))
                        EXCEPT !.dies = dies]
    /\ UNCHANGED <<topo, props, avail, hwval, prev, ep, own, st>>

GetPropPackages ==
    /\ Fresh
    /\ \E pname \in CallPnames, packages \in CallPackages, given \in BOOLEAN,
          mnames \in CallMnames :
         /\ (~given => mnames = <<>>)
         /\ last' = [GetCall("get_prop_packages", pname, given, mnames,
                             get_prop_packages(pname, packages, given, mnames))
                        EXCEPT !.packages = packages]
    /\ UNCHANGED <<topo, props, avail, hwval, prev, ep, own, st>>

SetPropCpus ==
    /\ Fresh
    /\ \E pname \in CallPnames, val \in CallVals, cpus \in CallCPUs, given \in BOOLEAN,
          mnames \in CallMnames :
         /\ (~given => mnames = <<>>)
         /\ LET r == set_prop_cpus(pname, val, cpus, given, mnames)
            IN /\ last' = [SetCall("set_prop_cpus", pname, val, given, mnames, r)
                              EXCEPT !.cpus = cpus]
               /\ hwval' = r.hw
    /\ UNCHANGED <<topo, props, avail, prev, ep, own, st>>

SetPropDies ==
    /\ Fresh
    /\ \E pname \in CallPnames, val \in CallVals, dies \in CallDies, given \in BOOLEAN,
          mnames \in CallMnames :
         /\ (~given => mnames = <<>>)
         /\ LET r == set_prop_dies(pname, val, dies, given, mnames)
            IN /\ last' = [SetCall("set_prop_dies", pname, val, given, mnames, r)
                              EXCEPT !.dies = dies]
               /\ hwval' = r.hw
    /\ UNCHANGED <<topo, props, avail, prev, ep, own, st>>

SetPropPackages ==
    /\ Fresh
    /\ \E pname \in CallPnames, val \in CallVals, packages \in CallPackages,
          given \in BOOLEAN, mnames \in CallMnames :
         /\ (~given => mnames = <<>>)
         /\ LET r == set_prop_packages(pname, val, packages, given, mnames)
            IN /\ last' = [SetCall("set_prop_packages", pname, val, given, mnames, r)
                              EXCEPT !.packages = packages]
               /\ hwval' = r.hw
    /\ UNCHANGED <<topo, props, avail, prev, ep, own, st>>

\* After a set that returned, the caller reads the property back from the same target
\* with the default mechanisms.
Written == prev.op = "none" /\ last.exc = ""

ReadBackCpus ==
    /\ Written /\ last.op = "set_prop_cpus"
    /\ LET r == get_prop_cpus(last.pname, last.cpus, FALSE, <<>>)
       IN last' = [NoCall EXCEPT !.op = "get_prop_cpus", !.pname = last.pname,
                       !.cpus = last.cpus, !.exc = r.exc, !.why = r.why, !.ret = r.ret,
                       !.reads = r.reads]
    /\ prev' = last
    /\ UNCHANGED <<topo, props, avail, hwval, ep, own, st>>

ReadBackDies ==
    /\ Written /\ last.op = "set_prop_dies"
    /\ last' = [GetCall("get_prop_dies", last.pname, FALSE, <<>>,
                        get_prop_dies(last.pname, last.dies, FALSE, <<>>))
                   EXCEPT !.dies = last.dies]
    /\ prev' = last
    /\ UNCHANGED <<topo, props, avail, hwval, ep, own, st>>

ReadBackPackages ==
    /\ Written /\ last.op = "set_prop_packages"
    /\ last' = [GetCall("get_prop_packages", last.pname, FALSE, <<>>,
                        get_prop_packages(last.pname, last.packages, FALSE, <<>>))
                   EXCEPT !.packages = last.packages]
    /\ prev' = last
    /\ UNCHANGED <<topo, props, avail, hwval, ep, own, st>>

(***************************************************************************)
(* get_prop_dies() and set_prop_dies() called with dies="all".  The same   *)
(* code as above runs with the string in place of the dictionary: the      *)
(* string goes to normalize_packages() and 'dies[package]' indexes it.     *)
(***************************************************************************)
\* The characters of the string "all".
AllChars == <<"a", "l", "l">>

\* 'dies[package]' for dies = "all": the character at that index, IndexError past the
\* end of the string.
StrItem(package) ==
    IF package + 1 \in DOMAIN AllChars
    THEN [exc |-> "", why |-> "", item |-> AllChars[package + 1]]
    ELSE [exc |-> "IndexError", why |-> "string_index", item |-> ""]

\* normalize_packages("all"): every package.
normalize_packages_all == normalize_packages(get_packages(topo))

\* normalize_dies() of a string: "all" is every die of the package, any other string
\* names no die.
normalize_dies_str(dies, package) ==
    IF dies = "all"
    THEN [exc |-> "", why |-> "", list |-> SortedSeq(get_dies(topo, package))]
    ELSE [exc |-> "Error", why |-> "invalid_target", list |-> <<>>]

RECURSIVE ReadPackagesDiesAll(_, _, _)
ReadPackagesDiesAll(pname, packages, mnames) ==
    IF packages = <<>> THEN NoUnits
    ELSE LET item == StrItem(Head(packages))
             nd == normalize_dies_str(item.item, Head(packages))
         IN IF item.exc # "" THEN Failed(item)
            ELSE IF nd.exc # "" THEN Failed(nd)
            ELSE Then(ReadDies(pname, Head(packages), nd.list, mnames),
                      ReadPackagesDiesAll(pname, Tail(packages), mnames))

get_prop_dies_all(pname, given, mnames) ==
    LET e1 == _validate_pname(pname)
        nm == _normalize_mnames(given, mnames, pname, TRUE)
        e2 == _validate_prop_vs_scope(pname, "die")
        np == normalize_packages_all
    IN IF e1.exc # "" THEN Failed(e1)
       ELSE IF nm.exc # "" THEN Failed(nm)
       ELSE IF e2.exc # "" THEN Failed(e2)
       ELSE IF np.exc # "" THEN Failed(np)
       ELSE ReadPackagesDiesAll(pname, np.list, nm.mnames)

RECURSIVE NormalizeDictAll(_)
NormalizeDictAll(packages) ==
    IF packages = <<>> THEN [exc |-> "", why |-> "", list |-> <<>>]
    ELSE LET item == StrItem(Head(packages))
             nd == normalize_dies_str(item.item, Head(packages))
             rest == NormalizeDictAll(Tail(packages))
         IN IF item.exc # "" THEN [exc |-> item.exc, why |-> item.why, list |-> <<>>]
            ELSE IF nd.exc # "" THEN nd
            ELSE IF rest.exc # "" THEN rest
            ELSE [exc |-> "", why |-> "",
                  list |-> [i \in 1..Len(nd.list) |-> <<Head(packages), nd.list[i]>>]
                           \o rest.list]

set_prop_dies_all(pname, val, given, mnames) ==
    LET nm == _normalize_mnames(given, mnames, pname, FALSE)
        nv == _normalize_inprop(pname, val)
        e1 == _set_sname(pname)
        e2 == _validate_prop_vs_scope(pname, "die")
        np == normalize_packages_all
        nd == NormalizeDictAll(np.list)
    IN IF nm.exc # "" THEN Rejected(nm)
       ELSE IF nv.exc # "" THEN Rejected(nv)
       ELSE IF e1.exc # "" THEN Rejected(e1)
       ELSE IF e2.exc # "" THEN Rejected(e2)
       ELSE IF np.exc # "" THEN Rejected(np)
       ELSE IF nd.exc # "" THEN Rejected(nd)
       ELSE _set_prop_dies(pname, nv.val, nd.list, nm.mnames)

GetPropDiesAll ==
    /\ Fresh
    /\ \E pname \in CallPnames, given \in BOOLEAN, mnames \in CallMnames :
         /\ (~given => mnames = <<>>)
         /\ last' = [GetCall("get_prop_dies_all", pname, given, mnames,
                             get_prop_dies_all(pname, given, mnames))
                        EXCEPT !.dies = AllDies]
    /\ UNCHANGED <<topo, props, avail, hwval, prev, ep, own, st>>

SetPropDiesAll ==
    /\ Fresh
    /\ \E pname \in CallPnames, val \in CallVals, given \in BOOLEAN, mnames \in CallMnames :
         /\ (~given => mnames = <<>>)
         /\ LET r == set_prop_dies_all(pname, val, given, mnames)
            IN /\ last' = [SetCall("set_prop_dies_all", pname, val, given, mnames, r)
                              EXCEPT !.dies = AllDies]
               /\ hwval' = r.hw
    /\ UNCHANGED <<topo, props, avail, prev, ep, own, st>>

Next ==
    \/ GetPropCpus
    \/ GetPropDies
    \/ GetPropPackages
    \/ SetPropCpus
    \/ SetPropDies
    \/ SetPropPackages
    \/ GetPropDiesAll
    \/ SetPropDiesAll
    \/ ReadBackCpus
    \/ ReadBackDies
    \/ ReadBackPackages

Spec == Init /\ [][Next]_vars

(***************************************************************************)
(* Vocabulary of the properties below.                                     *)
(***************************************************************************)
GetOps == {"get_prop_cpus", "get_prop_dies", "get_prop_packages"}
SetOps == {"set_prop_cpus", "set_prop_dies", "set_prop_packages"}

\* The mechanism order of a call: the explicit list, or the declared order.
Order(call) == IF call.mnames = <<>> THEN props[call.pname].mnames ELSE call.mnames

\* The positions of 'order' whose mechanism yields a value for 'pname' on 'cpu'.
Present(order, cpu) == {k \in 1..Len(order) : cpu \in avail[order[k]]}

\* The value a mechanism that supports the property yields, in canonical on/off form.
Canon(v) == IF v = "True" THEN "on" ELSE IF v = "False" THEN "off" ELSE v
CpuVal(order, pname, cpu) ==
    IF Present(order, cpu) = {} THEN None ELSE Canon(hwval[pname][cpu])

\* The mechanisms of an explicit list that the property does not declare, and the
\* declared ones that are read-only.
Undeclared(call) ==
    {k \in 1..Len(call.mnames) : call.mnames[k] \notin Range(props[call.pname].mnames)}
ReadOnly(call) ==
    {k \in 1..Len(call.mnames) : /\ call.mnames[k] \in Range(props[call.pname].mnames)
                                 /\ ~MECHANISMS[call.mnames[k]].writable}

\* C1: a per-CPU get returns, for every CPU, the value of the first mechanism of the
\* order that yields a present value, tagged with that mechanism, and does not invoke
\* any mechanism after it.
C1_FirstPresentWins ==
    (last.op = "get_prop_cpus" /\ last.exc = "") =>
        /\ Len(last.ret) = Cardinality(last.cpus)
        /\ \A i \in 1..Len(last.ret) :
             LET c == last.ret[i].cpu
                 present == Present(Order(last), c)
             IN /\ c \in last.cpus
                /\ present # {} =>
                     /\ last.ret[i].mname = Order(last)[Min(present)]
                     /\ last.ret[i].val = Canon(hwval[last.pname][c])
                     /\ \A j \in 1..Len(last.reads) :
                          last.reads[j][1] = c =>
                             \E k \in 1..Min(present) : Order(last)[k] = last.reads[j][2]

\* get(P, cpu, [A, B]) where A does not support P and B does: B's value, tagged B.
C1_Witness ==
    /\ last.op = "get_prop_cpus" /\ last.exc = "" /\ last.pname = "epb"
    /\ last.mnames = <<"sysfs", "msr">> /\ last.cpus = {1}
    /\ avail["sysfs"] = {} /\ avail["msr"] = CPUs
    /\ last.ret[1].mname = "msr" /\ last.ret[1].val = "PC6"
    /\ last.reads = << <<1, "sysfs">>, <<1, "msr">> >>

\* C2: when every mechanism tried reports the property absent for a CPU, the record of
\* that CPU has both 'val' and 'mname' None.
C2_AbsentMeansNoMechanism ==
    (last.op = "get_prop_cpus" /\ last.exc = "") =>
        \A i \in 1..Len(last.ret) :
            Present(Order(last), last.ret[i].cpu) = {} =>
                last.ret[i].val = None /\ last.ret[i].mname = None

\* What the code does for C2: the value is None and no error is raised, but 'mname' is
\* the last mechanism tried.
C2_AbsentKeepsLastMechanism ==
    (last.op = "get_prop_cpus" /\ last.exc = "") =>
        \A i \in 1..Len(last.ret) :
            Present(Order(last), last.ret[i].cpu) = {} =>
                /\ last.ret[i].val = None
                /\ last.ret[i].mname = Order(last)[Len(Order(last))]

(***************************************************************************)
(* Set calls whose arguments pass the checks made before the scope checks. *)
(***************************************************************************)
GoodBools == {"True", "False", "ON", "enable", "off", "Disable"}

NamesOK(call) ==
    /\ call.pname \in Pnames
    /\ Undeclared(call) = {}

SetArgsOK(call) ==
    /\ NamesOK(call)
    /\ ReadOnly(call) = {}
    /\ props[call.pname].writable
    /\ props[call.pname].type = "bool" => call.val \in GoodBools

\* A CPU set is a union of whole units when no unit is covered in part.
WholeUnits(sname, cpus) ==
    \A c \in CPUs : UnitCPUs(topo, sname, c) \cap cpus \in {{}, UnitCPUs(topo, sname, c)}

\* The CPUs of the units that 'cpus' covers in part.
Leftover(sname, cpus) ==
    {c \in cpus : \E d \in CPUs \ cpus : UnitOf(topo, sname, d) = UnitOf(topo, sname, c)}

\* C3: for a property of core, die or package scope, set_prop_cpus() accepts the CPU
\* set iff it is a union of whole units; otherwise it raises the scope Error that names
\* the leftover CPUs.  For CPU scope every CPU set is accepted.
C3_ScopeValidation ==
    (last.op = "set_prop_cpus" /\ SetArgsOK(last) /\ last.cpus \subseteq CPUs) =>
        LET sname == props[last.pname].sname
        IN /\ sname \in {"core", "die", "package"} =>
                /\ last.entered <=> WholeUnits(sname, last.cpus)
                /\ ~last.entered =>
                     /\ last.exc = "Error" /\ last.why = "scope"
                     /\ last.rem = Leftover(sname, last.cpus) /\ last.rem # {}
           /\ sname = "CPU" => last.entered

\* A core-scoped property set on one CPU of a two-CPU core is rejected, naming the CPU.
C3_Witness ==
    /\ last.op = "set_prop_cpus" /\ last.pname = "c1_demotion" /\ topo = TopoOneDie
    /\ last.cpus = {1, 2} /\ last.val = "ON"
    /\ last.exc = "Error" /\ last.why = "scope" /\ last.rem = {1}

\* Per-die or per-package calls that reach the check of the property scope.
ReachesCrossScope(call) ==
    /\ call.op \in {"get_prop_dies", "get_prop_packages", "set_prop_dies", "set_prop_packages"}
    /\ IF call.op \in SetOps THEN SetArgsOK(call) ELSE NamesOK(call)

CrossScopeAccepted(call) == call.why # "cross_scope"

OneDiePerPackage == \A p \in get_packages(topo) : Cardinality(get_dies(topo, p)) = 1

\* C4: per-die access is accepted exactly for die, package and global scope; per-package
\* access exactly for package and global scope, and also for die scope when every
\* package of the platform has exactly one die.
C4_CrossScope ==
    ReachesCrossScope(last) =>
        LET sname == props[last.pname].sname
        IN IF last.op \in {"get_prop_dies", "set_prop_dies"}
           THEN CrossScopeAccepted(last) <=> sname \in {"die", "package", "global"}
           ELSE CrossScopeAccepted(last) <=>
                   \/ sname \in {"package", "global"}
                   \/ sname = "die" /\ OneDiePerPackage

\* What the code does for C4: only the dies of package 0 are counted.
C4_CrossScopePackageZero ==
    ReachesCrossScope(last) =>
        LET sname == props[last.pname].sname
        IN IF last.op \in {"get_prop_dies", "set_prop_dies"}
           THEN CrossScopeAccepted(last) <=> sname \in {"die", "package", "global"}
           ELSE CrossScopeAccepted(last) <=>
                   \/ sname \in {"package", "global"}
                   \/ sname = "die" /\ Cardinality(get_dies(topo, 0)) = 1

(***************************************************************************)
(* The units a per-die or per-package call addresses, in the order in which *)
(* the call visits them.                                                    *)
(***************************************************************************)
Unit(package, die) == [package |-> package, die |-> die]

RECURSIVE SortedUnits(_)
SortedUnits(S) ==
    IF S = {} THEN <<>>
    ELSE LET u == CHOOSE x \in S : \A y \in S :
                      x.package < y.package \/ (x.package = y.package /\ x.die <= y.die)
         IN <<u>> \o SortedUnits(S \ {u})

Units(call) ==
    IF call.op \in {"get_prop_dies", "set_prop_dies"}
    THEN SortedUnits({Unit(pd[1], pd[2]) : pd \in call.dies})
    ELSE SortedUnits({Unit(p, -1) : p \in call.packages})

CPUsOfUnit(u) ==
    {c \in CPUs : /\ LocOf(topo, c).package = u.package
                  /\ (u.die = -1 \/ LocOf(topo, c).die = u.die)}

ValidTarget(call) ==
    IF call.op \in {"get_prop_dies", "set_prop_dies"}
    THEN call.dies \subseteq AllDies
    ELSE call.packages \subseteq get_packages(topo)

Agree(call, u) ==
    \A a, b \in CPUsOfUnit(u) :
        CpuVal(Order(call), call.pname, a) = CpuVal(Order(call), call.pname, b)

WasRead(call, cpu) == \E j \in 1..Len(call.reads) : call.reads[j][1] = cpu

FinerIoScope(pname) == props[pname].sname # props[pname].iosname

\* C5: a per-die or per-package read of a property whose I/O scope differs from its
\* scope reads every CPU of the unit; when two CPUs of the unit disagree it raises
\* ErrorUsePerCPU with the conflicting (CPU, value) pairs and yields no record for the
\* unit, and it yields a record only for a unit whose CPUs all agree.
C5_IoScopeAgreement ==
    (/\ last.op \in {"get_prop_dies", "get_prop_packages"}
     /\ NamesOK(last) /\ CrossScopeAccepted(last) /\ ValidTarget(last)
     /\ FinerIoScope(last.pname)) =>
        LET units == Units(last)
            n == Len(last.ret)
        IN /\ n <= Len(units)
           /\ \A i \in 1..n :
                /\ Agree(last, units[i])
                /\ last.ret[i].package = units[i].package /\ last.ret[i].die = units[i].die
                /\ \A c \in CPUsOfUnit(units[i]) :
                     /\ WasRead(last, c)
                     /\ last.ret[i].val = CpuVal(Order(last), last.pname, c)
           /\ IF n < Len(units)
              THEN /\ last.exc = "ErrorUsePerCPU"
                   /\ ~Agree(last, units[n + 1])
                   /\ \A c \in CPUsOfUnit(units[n + 1]) :
                        /\ WasRead(last, c)
                        /\ \E k \in 1..Len(last.pvinfos) :
                             /\ last.pvinfos[k].cpu = c
                             /\ last.pvinfos[k].val = CpuVal(Order(last), last.pname, c)
                   /\ Len(last.disagreed) = 2
                   /\ last.disagreed[1].val # last.disagreed[2].val
                   /\ \A k \in 1..2 :
                        /\ last.disagreed[k].cpu \in CPUsOfUnit(units[n + 1])
                        /\ last.disagreed[k] \in Range(last.pvinfos)
              ELSE last.exc = ""

\* Package 0 = {CPU 0} is read and yielded, then package 1 = {CPU 1, CPU 2} disagrees.
C5_Witness ==
    /\ last.op = "get_prop_packages" /\ last.pname = "pkg_cstate_limit"
    /\ topo = TopoMixed /\ last.packages = {0, 1} /\ avail["msr"] = CPUs
    /\ last.exc = "ErrorUsePerCPU" /\ Len(last.ret) = 1
    /\ last.disagreed[1].cpu = 1 /\ last.disagreed[1].val = "PC6"
    /\ last.disagreed[2].cpu = 2 /\ last.disagreed[2].val = "PC2"

\* The unit of the I/O scope of 'pname' that 'cpu' belongs to.
IoUnitOf(pname, cpu) == UnitOf(topo, props[pname].iosname, cpu)

\* C6: a per-die or per-package write of a property whose I/O scope is finer than its
\* scope reaches every I/O-scope unit of each addressed die or package; when the I/O
\* scope equals the scope it writes exactly the first CPU of each unit.
C6_WriteCoversUnit ==
    (/\ last.op \in {"set_prop_dies", "set_prop_packages"}
     /\ last.exc = "" /\ last.entered) =>
        LET units == Units(last)
        IN IF FinerIoScope(last.pname)
           THEN \A i \in 1..Len(units) : \A c \in CPUsOfUnit(units[i]) :
                    \E w \in Range(last.writes) :
                        IoUnitOf(last.pname, w) = IoUnitOf(last.pname, c)
           ELSE last.writes = [i \in 1..Len(units) |-> Min(CPUsOfUnit(units[i]))]

\* What the code does for C6: it writes the first CPU of each unit, whatever the I/O scope.
C6_WritesFirstCPUOnly ==
    (/\ last.op \in {"set_prop_dies", "set_prop_packages"}
     /\ last.exc = "" /\ last.entered) =>
        last.writes = [i \in 1..Len(Units(last)) |-> Min(CPUsOfUnit(Units(last)[i]))]

\* C7: every public get and set entry point called with a property name that is not in
\* the registry fails with the "unknown property name" Error.
C7_UnknownProperty ==
    (last.op \in GetOps \cup SetOps /\ last.pname \notin Pnames) =>
        last.exc = "Error" /\ last.why = "unknown_pname"

\* What the code does for C7: the get entry points raise the Error; the set entry points
\* raise KeyError, unless the mechanism list is given and empty.
C7_UnknownPropertyGetOnly ==
    (last.op \in GetOps \cup SetOps /\ last.pname \notin Pnames) =>
        IF last.op \in GetOps \/ (last.given /\ last.mnames = <<>>)
        THEN last.exc = "Error" /\ last.why = "unknown_pname"
        ELSE last.exc = "KeyError"

\* The first mechanism of the explicit list that the call may not use, 0 if none.
Offenders(call) ==
    Undeclared(call) \cup (IF call.op \in SetOps THEN ReadOnly(call) ELSE {})

\* First-occurrence order: 'r' has the elements of 's', each once, ordered by their
\* first positions in 's'.
FirstPos(s, x) == Min({k \in 1..Len(s) : s[k] = x})
IsDedupOf(r, s) ==
    /\ Range(r) = Range(s)
    /\ \A i, j \in 1..Len(r) : i < j => FirstPos(s, r[i]) < FirstPos(s, r[j])

\* C8 as stated: a call naming an undeclared mechanism fails with ErrorNotSupported, and
\* a set naming a declared read-only mechanism fails with the read-only Error.
C8_AnyOffender ==
    (last.op \in GetOps \cup SetOps /\ last.pname \in Pnames /\ last.given) =>
        /\ Undeclared(last) # {} => last.exc = "ErrorNotSupported"
        /\ (last.op \in SetOps /\ ReadOnly(last) # {}) =>
               last.exc = "Error" /\ last.why = "readonly_mname"

\* C8 amended: the first mechanism of the list that the call may not use decides the
\* failure: ErrorNotSupported when it is not declared for the property, the read-only
\* Error when a set names a declared read-only mechanism.  A get accepts declared
\* read-only mechanisms, and an accepted list is de-duplicated in first-occurrence order.
C8_FirstOffender ==
    (last.op \in GetOps \cup SetOps /\ last.pname \in Pnames /\ last.given) =>
        IF Offenders(last) # {}
        THEN IF Min(Offenders(last)) \in Undeclared(last)
             THEN last.exc = "ErrorNotSupported" /\ last.why = "undeclared_mname"
             ELSE last.exc = "Error" /\ last.why = "readonly_mname"
        ELSE /\ last.why \notin {"undeclared_mname", "readonly_mname"}
             /\ last.exc \notin {"ErrorNotSupported", "KeyError"} \/ last.entered
             /\ LET nm == _normalize_mnames(TRUE, last.mnames, last.pname,
                                            last.op \in GetOps)
                IN nm.exc = "" /\ IsDedupOf(nm.mnames, last.mnames)
             /\ last.op = "get_prop_cpus" /\ last.exc = "" =>
                    \A i, j \in 1..Len(last.reads) :
                        (i < j /\ last.reads[i][1] = last.reads[j][1]) =>
                            FirstPos(Order(last), last.reads[i][2])
                                < FirstPos(Order(last), last.reads[j][2])

\* A set whose list names a read-only mechanism before an undeclared one, and a get
\* that is given a declared read-only mechanism twice.
C8_Witness ==
    \/ /\ last.op = "set_prop_cpus" /\ last.pname = "uncore_ratio"
       /\ last.mnames = <<"cppc", "sysfs">>
       /\ last.exc = "Error" /\ last.why = "readonly_mname"
    \/ /\ last.op = "get_prop_cpus" /\ last.pname = "uncore_ratio"
       /\ last.mnames = <<"cppc", "cppc">> /\ last.cpus = {0} /\ avail["cppc"] = {}
       /\ last.exc = "" /\ last.reads = << <<0, "cppc">> >>

(***************************************************************************)
(* Caller errors of the set entry points.                                  *)
(***************************************************************************)
\* The raise statements that report a caller error.
CallerWhys ==
    {"undeclared_mname", "readonly_mname", "readonly_prop", "bad_bool", "invalid_target",
     "scope", "cross_scope"}

BadTarget(call) ==
    CASE call.op = "set_prop_cpus" -> ~(call.cpus \subseteq CPUs)
      [] call.op = "set_prop_dies" -> ~(call.dies \subseteq AllDies)
      [] OTHER -> ~(call.packages \subseteq get_packages(topo))

ScopeViolation(call) ==
    LET sname == props[call.pname].sname
    IN CASE call.op = "set_prop_cpus" ->
              /\ call.cpus \subseteq CPUs
              /\ \/ sname \in {"core", "die", "package"} /\ ~WholeUnits(sname, call.cpus)
                 \/ sname = "global" /\ call.cpus # CPUs
         [] OTHER -> sname \in {"CPU", "core"}

\* The arguments of a set call on a known property are in error.
CallerError(call) ==
    /\ call.pname \in Pnames
    /\ \/ Undeclared(call) # {}
       \/ ReadOnly(call) # {}
       \/ ~props[call.pname].writable
       \/ props[call.pname].type = "bool" /\ call.val \notin GoodBools
       \/ BadTarget(call)
       \/ ScopeViolation(call)

\* C9: a set call that fails because of a caller error fails before the write path is
\* entered: it writes nothing and no property value changes; and a set call whose
\* arguments are in error fails that way.
C9_CallerErrorsWriteNothing ==
    [][(last'.op \in SetOps /\ last' # last) =>
          ((\/ last'.exc # "" /\ last'.why \in CallerWhys
            \/ CallerError(last')) =>
               /\ last'.exc # "" /\ last'.why \in CallerWhys
               /\ ~last'.entered /\ last'.writes = <<>>
               /\ hwval' = hwval)]_vars

\* A per-die set of a CPU-scoped property is rejected and the hardware keeps its values.
C9_Witness ==
    /\ last.op = "set_prop_dies" /\ last.pname = "epb" /\ last.val = "PC6"
    /\ last.exc = "Error" /\ last.why = "cross_scope" /\ ~last.entered
    /\ avail["msr"] = CPUs
    /\ \A c \in CPUs : hwval["epb"][c] = "PC2"

(***************************************************************************)
(* Round trip.                                                             *)
(***************************************************************************)
OnVals == {"True", "ON", "enable"}
OffVals == {"False", "off", "Disable"}

\* The value a get yields after a set of 'val'.
RoundTrip(pname, val) ==
    IF props[pname].type = "bool"
    THEN IF val \in OnVals THEN "on" ELSE "off"
    ELSE val

EPCPUs == {0, 1}

\* Trivial.is_int() and int() on the strings used as values.
IntOf == [n \in {"0", "4", "6", "8", "15", "16", "128", "192", "255", "256"} |->
             CASE n = "0" -> 0 [] n = "4" -> 4 [] n = "6" -> 6 [] n = "8" -> 8
               [] n = "15" -> 15 [] n = "16" -> 16 [] n = "128" -> 128
               [] n = "192" -> 192 [] n = "255" -> 255 [] n = "256" -> 256]
is_int(v) == v \in DOMAIN IntOf
str(n) == CHOOSE v \in DOMAIN IntOf : IntOf[v] = n
validate_value_in_range(n, min, max) == IF n < min \/ n > max THEN "Error" ELSE ""

\* The result of a method: the object afterwards, the returned value, the exception
\* raised ("" if none) and the mechanism used.
Out(s, val, exc, mname) == [s |-> s, val |-> val, exc |-> exc, mname |-> mname]
Ret(s, val) == Out(s, val, "", None)
Exc(s, exc) == Out(s, None, exc, None)

\* _PropsCache.PropsCache.  'old' marks an entry that was in the cache when a write of
\* its property to its CPU was attempted.
NotCached == [c |-> FALSE, val |-> None, old |-> FALSE]
CacheKeys == {"epb", "supported", "epp_policies", "epp_policy"}
pc_is_cached(s, pname, cpu) == s.enable /\ s.cache[pname][cpu].c
pc_get(s, pname, cpu) ==
    Ret([s EXCEPT !.old = @ \/ s.cache[pname][cpu].old, !.hits = @ + 1],
        s.cache[pname][cpu].val)
pc_add(s, pname, cpu, val) ==
    IF s.enable
    THEN [s EXCEPT !.cache[pname][cpu] = [c |-> TRUE, val |-> val, old |-> FALSE]]
    ELSE s
pc_remove(s, pname, cpu) == [s EXCEPT !.cache[pname][cpu] = NotCached]

\* The host accessor: a write to the sysfs file of 'pname' for 'cpu' is attempted.
open_write(s, pname, cpu) ==
    [s EXCEPT !.nwr = @ + 1, !.cache[pname][cpu].old = s.cache[pname][cpu].c]
\* The register accessor: a write of the MSR feature for 'cpu' is attempted.
write_cpu_feature(s, pname, cpu) ==
    [s EXCEPT !.nmsrw = @ + 1, !.cache[pname][cpu].old = s.cache[pname][cpu].c]
open_read(s) == [s EXCEPT !.nfile = @ + 1]

(***************************************************************************)
(* EPB.                                                                    *)
(***************************************************************************)
_EPB_POLICIES == {"performance", "balance-performance", "normal", "balance-power", "power"}
_EPB_MIN == 0
_EPB_MAX == 15

\* The kernel stores the number of a policy name written to the EPB sysfs file.
KernelEPB ==
    [p \in _EPB_POLICIES |->
        CASE p = "performance" -> "0" [] p = "balance-performance" -> "4"
          [] p = "normal" -> "6" [] p = "balance-power" -> "8" [] p = "power" -> "15"]

EPB_validate_value(val, policy_ok) ==
    IF is_int(val) THEN validate_value_in_range(IntOf[val], _EPB_MIN, _EPB_MAX)
    ELSE IF ~policy_ok THEN "ErrorNotSupported"
    ELSE IF val \notin _EPB_POLICIES THEN "ErrorNotSupported"
    ELSE ""

_read_from_msr(s, cpu) ==
    IF ep.plat.msr THEN Ret([s EXCEPT !.nmsr = @ + 1], s.hw[cpu]) ELSE Ret(s, None)

_write_to_msr(s, val, cpu) ==
    LET s1 == write_cpu_feature(s, "epb", cpu)
    IN IF ~ep.plat.msr THEN Exc(s1, "ErrorNotSupported")
       ELSE IF ~is_int(val) THEN Exc(s1, "Error")
       ELSE Ret([s1 EXCEPT !.hw[cpu] = str(IntOf[val])], None)

\* Mutant: an absent file is not memoized.
_read_from_sysfs_nomemo(s, cpu) ==
    IF pc_is_cached(s, "epb", cpu)
    THEN pc_get(s, "epb", cpu)
    ELSE LET s1 == open_read(s)
             val == IF ep.plat.sysfs THEN str(IntOf[s.hw[cpu]]) ELSE None
         IN Ret(IF val = None THEN s1 ELSE pc_add(s1, "epb", cpu, val), val)

_read_from_sysfs(s, cpu) ==
    IF pc_is_cached(s, "epb", cpu)
    THEN pc_get(s, "epb", cpu)
    ELSE LET s1 == open_read(s)
             val == IF ep.plat.sysfs THEN str(IntOf[s.hw[cpu]]) ELSE None
         IN Ret(pc_add(s1, "epb", cpu, val), val)

\* Mutant: the cache entry is neither removed before the write nor replaced after it.
_write_to_sysfs_keep(s, val, cpu) ==
    LET s1 == open_write(s, "epb", cpu)
    IN IF ~ep.plat.sysfs THEN Exc(s1, "ErrorNotSupported")
       ELSE IF ep.plat.wfail # "" THEN Exc(s1, ep.plat.wfail)
       ELSE Ret([s1 EXCEPT !.hw[cpu] =
                     IF is_int(val) THEN str(IntOf[val]) ELSE KernelEPB[val]], None)

_write_to_sysfs(s, val, cpu) ==
    LET s1 == open_write(pc_remove(s, "epb", cpu), "epb", cpu)
    IN IF ~ep.plat.sysfs THEN Exc(s1, "ErrorNotSupported")
       ELSE IF ep.plat.wfail # "" THEN Exc(s1, ep.plat.wfail)
       ELSE LET s2 == [s1 EXCEPT !.hw[cpu] =
                          IF is_int(val) THEN str(IntOf[val]) ELSE KernelEPB[val]]
            IN IF ~is_int(val)
               THEN IF s2.pol[val] \in {None, "0"}
                    THEN LET r == _read_from_sysfs(s2, cpu)
                             s3 == [r.s EXCEPT !.pol[val] = r.val]
                         IN Ret(pc_add(s3, "epb", cpu, r.val), None)
                    ELSE Ret(pc_add(s2, "epb", cpu, s2.pol[val]), None)
               ELSE Ret(pc_add(s2, "epb", cpu, str(IntOf[val])), None)

\* _EPBase.EPBase: the mechanisms are tried in order, the first present value wins.
RECURSIVE EPB_get_cpu_val(_, _, _)
EPB_get_cpu_val(s, cpu, mnames) ==
    IF mnames = <<>> THEN Ret(s, None)
    ELSE LET r == IF Head(mnames) = "sysfs" THEN _read_from_sysfs(s, cpu)
                  ELSE _read_from_msr(s, cpu)
         IN IF r.val # None THEN Out(r.s, r.val, "", Head(mnames))
            ELSE EPB_get_cpu_val(r.s, cpu, Tail(mnames))

\* _EPBase.EPBase: sysfs is written first, the MSR only if sysfs is not supported.
EPB_set_cpu_val(s, val, cpu) ==
    LET bad == EPB_validate_value(val, TRUE)
        w1 == _write_to_sysfs(s, val, cpu)
        w2 == _write_to_msr(w1.s, val, cpu)
    IN IF bad # "" THEN Exc(s, bad)
       ELSE IF w1.exc = "" THEN Out(w1.s, None, "", "sysfs")
       ELSE IF w1.exc # "ErrorNotSupported" THEN Exc(w1.s, w1.exc)
       ELSE IF w2.exc = "" THEN Out(w2.s, None, "", "msr")
       ELSE Exc(w2.s, w2.exc)

(***************************************************************************)
(* EPP.                                                                    *)
(***************************************************************************)
_EPP_POLICIES ==
    [p \in {"performance", "balance_performance", "balance_power", "power"} |->
        CASE p = "performance" -> "0" [] p = "balance_performance" -> "128"
          [] p = "balance_power" -> "192" [] p = "power" -> "255"]
_EPP_MIN == 0
_EPP_MAX == 255

\* self._epp_rmap: the policy name of an EPP value.
_epp_rmap(epp) == CHOOSE p \in DOMAIN _EPP_POLICIES : _EPP_POLICIES[p] = epp

\* The policy names a cached or returned list of policies stands for.
PolicyList(list) ==
    IF list = "energy_performance_available_preferences" THEN DOMAIN _EPP_POLICIES ELSE {}

\* The EPP value the MSR holds when the sysfs file shows 'v'.
EppOf(v) == IF is_int(v) THEN str(IntOf[v]) ELSE _EPP_POLICIES[v]

is_epp_supported(s, cpu) ==
    IF pc_is_cached(s, "supported", cpu)
    THEN pc_get(s, "supported", cpu)
    ELSE LET s1 == open_read(s)
             val == IF ep.plat.sysfs THEN "True"
                    ELSE IF ep.plat.msr THEN "True" ELSE "False"
         IN Ret(pc_add(s1, "supported", cpu, val), val)

\* 'self._pman.read(path, must_exist=False).strip()': when the file does not exist
\* read() returns None, which has no strip().
_get_cpu_epp_policies(s, cpu) ==
    LET sup == is_epp_supported(s, cpu)
    IN IF sup.val # "True" THEN Ret(sup.s, None)
       ELSE IF pc_is_cached(sup.s, "epp_policies", cpu)
       THEN pc_get(sup.s, "epp_policies", cpu)
       ELSE LET s1 == open_read(sup.s)
                policies == "energy_performance_available_preferences"
            IN IF ~ep.plat.sysfs THEN Exc(s1, "AttributeError")
               ELSE Ret(pc_add(s1, "epp_policies", cpu, policies), policies)

_get_cpu_epp_policy_from_sysfs(s, cpu) ==
    IF ep.plat.sysfs THEN Ret(open_read(s), s.hw[cpu]) ELSE Ret(open_read(s), None)

_get_cpu_epp(s, cpu) ==
    IF ep.plat.msr THEN Ret([s EXCEPT !.nmsr = @ + 1], EppOf(s.hw[cpu])) ELSE Ret(s, None)

_get_cpu_epp_policy(s, cpu) ==
    LET p == _get_cpu_epp_policies(s, cpu)
        cached == pc_is_cached(p.s, "epp_policy", cpu)
        r == IF cached THEN pc_get(p.s, "epp_policy", cpu)
             ELSE _get_cpu_epp_policy_from_sysfs(p.s, cpu)
        s1 == IF cached THEN r.s ELSE pc_add(r.s, "epp_policy", cpu, r.val)
        policy == r.val
        e == _get_cpu_epp(s1, cpu)
    IN IF p.exc # "" THEN Exc(p.s, p.exc)
       ELSE IF p.val = None THEN Ret(p.s, None)
       ELSE IF policy \in PolicyList(p.val) THEN Ret(s1, policy)
       ELSE IF policy # None THEN Ret(s1, "unknown EPP=" \o policy)
       ELSE IF e.val = None THEN Ret(e.s, None)
       ELSE IF \E n \in DOMAIN _EPP_POLICIES : _EPP_POLICIES[n] = e.val
       THEN Ret(e.s, _epp_rmap(e.val))
       ELSE Exc(e.s, "Error")

\* Mutant: any failure of the sysfs write is taken for a missing file.
_set_cpu_epp_via_sysfs_anyfail(s, epp, cpu) ==
    LET s1 == open_write(s, "epp_policy", cpu)
    IN IF ~ep.plat.sysfs THEN Ret(s1, None)
       ELSE IF ep.plat.wfail # "" THEN Ret(s1, None)
       ELSE Ret([s1 EXCEPT !.hw[cpu] = epp], epp)

_set_cpu_epp_via_sysfs(s, epp, cpu) ==
    LET s1 == open_write(s, "epp_policy", cpu)
        cur == _get_cpu_epp_policy_from_sysfs(s1, cpu)
        pols == _get_cpu_epp_policies(cur.s, cpu)
    IN IF ~ep.plat.sysfs THEN Ret(s1, None)
       ELSE IF ep.plat.wfail # ""
       THEN IF epp = cur.val THEN Ret(cur.s, epp) ELSE Exc(pols.s, "Error")
       ELSE Ret([s1 EXCEPT !.hw[cpu] = epp], epp)

_set_cpu_epp(s, epp, cpu) ==
    LET sup == is_epp_supported(s, cpu)
        p == _get_cpu_epp_policies(sup.s, cpu)
        names == _get_cpu_epp_policies(p.s, cpu)
        s1 == IF is_int(epp) THEN sup.s ELSE p.s
        w == _set_cpu_epp_via_sysfs(s1, epp, cpu)
        m == write_cpu_feature(w.s, "epp_policy", cpu)
    IN IF sup.val # "True" THEN Exc(sup.s, "Error")
       ELSE IF is_int(epp) /\ validate_value_in_range(IntOf[epp], _EPP_MIN, _EPP_MAX) # ""
       THEN Exc(sup.s, "Error")
       ELSE IF ~is_int(epp) /\ p.exc # "" THEN Exc(p.s, p.exc)
       ELSE IF ~is_int(epp) /\ Lower(epp) \notin PolicyList(p.val) THEN Exc(names.s, "Error")
       ELSE IF w.exc # "" THEN Exc(w.s, w.exc)
       ELSE IF w.val = epp
       THEN Out(pc_add(w.s, "epp_policy", cpu, epp), None, "", "sysfs")
       ELSE IF ~ep.plat.msr THEN Exc(m, "ErrorNotSupported")
       ELSE IF ~is_int(epp) THEN Exc(m, "Error")
       ELSE Out([m EXCEPT !.hw[cpu] = str(IntOf[epp])], None, "", "msr")

(***************************************************************************)
(* ASPM.  The policy file is global: the model keeps it in hw[0].          *)
(***************************************************************************)
AspmPolicies == {"default", "performance", "powersave"}

_get_policies(s) ==
    IF ep.plat.sysfs THEN Ret(open_read(s), "policy") ELSE Exc(open_read(s), "Error")

\* Mutant: every failure of the write is raised as a plain Error.
set_policy_plain(s, policy) ==
    LET p == _get_policies(s)
        s1 == [p.s EXCEPT !.nwr = @ + 1]
    IN IF p.exc # "" THEN Exc(p.s, p.exc)
       ELSE IF policy \notin AspmPolicies THEN Exc(p.s, "Error")
       ELSE IF ep.plat.wfail # "" THEN Exc(s1, "Error")
       ELSE Ret([s1 EXCEPT !.hw[0] = policy], None)

set_policy(s, policy) ==
    LET p == _get_policies(s)
        s1 == [p.s EXCEPT !.nwr = @ + 1]
    IN IF p.exc # "" THEN Exc(p.s, p.exc)
       ELSE IF policy \notin AspmPolicies THEN Exc(p.s, "Error")
       ELSE IF ep.plat.wfail = "ErrorPermissionDenied" THEN Exc(s1, "ErrorPermissionDenied")
       ELSE IF ep.plat.wfail # "" THEN Exc(s1, "Error")
       ELSE Ret([s1 EXCEPT !.hw[0] = policy], None)

get_policy(s) ==
    LET p == _get_policies(s)
    IN IF p.exc # "" THEN Exc(p.s, p.exc) ELSE Ret(p.s, s.hw[0])

(***************************************************************************)
(* The calls on an EPB, EPP or ASPM object.                                *)
(***************************************************************************)
EpCache == [k \in CacheKeys |-> [c \in EPCPUs |-> NotCached]]

\* An object after __init__(): an empty cache, no EPB policy value known.
EpObject(enable_cache, hw) ==
    [enable |-> enable_cache, hw |-> hw, cache |-> EpCache,
     pol |-> [p \in _EPB_POLICIES |-> None],
     nfile |-> 0, nwr |-> 0, nmsr |-> 0, nmsrw |-> 0, hits |-> 0, old |-> FALSE]

\* What a call did: its result and the accesses it made.
EpDone(r) ==
    [val |-> r.val, exc |-> r.exc, mname |-> r.mname, nfile |-> r.s.nfile, nwr |-> r.s.nwr,
     nmsr |-> r.s.nmsr, nmsrw |-> r.s.nmsrw, hits |-> r.s.hits, old |-> r.s.old]
EpRest(s) ==
    [s EXCEPT !.nfile = 0, !.nwr = 0, !.nmsr = 0, !.nmsrw = 0, !.hits = 0, !.old = FALSE]

EpNoCall == [op |-> "none", cpu |-> 0, val |-> None, mnames |-> <<>>,
             c |-> EpDone(Ret(EpObject(TRUE, [c \in EPCPUs |-> None]), None)),
             u |-> EpDone(Ret(EpObject(FALSE, [c \in EPCPUs |-> None]), None))]

EpBoot(kind) ==
    CASE kind = "EPB" -> [c \in EPCPUs |-> IF c = 0 THEN "6" ELSE "15"]
      [] kind = "EPP" -> [c \in EPCPUs |-> IF c = 0 THEN "performance" ELSE "128"]
      [] kind = "ASPM" -> [c \in EPCPUs |-> "default"]

EpInit ==
    /\ \E kind \in {"EPB", "EPP", "ASPM"}, sysfs \in BOOLEAN, msr \in BOOLEAN,
          wfail \in {"", "ErrorPermissionDenied", "Error"} :
         ep = [kind |-> kind,
               plat |-> [sysfs |-> sysfs, msr |-> msr, wfail |-> wfail],
               c |-> EpObject(TRUE, EpBoot(kind)),
               u |-> EpObject(FALSE, EpBoot(kind)),
               last |-> EpNoCall, tick |-> FALSE]
    /\ topo = Unused /\ props = Unused /\ avail = Unused /\ hwval = Unused
    /\ last = Unused /\ prev = Unused /\ own = Unused /\ st = Unused

EpCall(op, cpu, val, mnames, rc, ru) ==
    /\ ep' = [ep EXCEPT !.c = EpRest(rc.s), !.u = EpRest(ru.s), !.tick = ~@,
                        !.last = [op |-> op, cpu |-> cpu, val |-> val, mnames |-> mnames,
                                  c |-> EpDone(rc), u |-> EpDone(ru)]]
    /\ UNCHANGED <<topo, props, avail, hwval, last, prev, own, st>>

EpbMnames == {<<"sysfs", "msr">>, <<"msr", "sysfs">>, <<"sysfs">>, <<"msr">>}
EpbVals == {"0", "15", "16", "power", "performance", "bogus"}
EppVals == {"128", "256", "power", "performance", "bogus"}

EpbGet ==
    /\ ep.kind = "EPB"
    /\ \E cpu \in EPCPUs, mnames \in EpbMnames :
         EpCall("get", cpu, None, mnames,
                EPB_get_cpu_val(ep.c, cpu, mnames), EPB_get_cpu_val(ep.u, cpu, mnames))

EpbSet ==
    /\ ep.kind = "EPB"
    /\ \E cpu \in EPCPUs, val \in EpbVals :
         EpCall("set", cpu, val, <<>>,
                EPB_set_cpu_val(ep.c, val, cpu), EPB_set_cpu_val(ep.u, val, cpu))

EppIsSupported ==
    /\ ep.kind = "EPP"
    /\ \E cpu \in EPCPUs :
         EpCall("is_epp_supported", cpu, None, <<>>,
                is_epp_supported(ep.c, cpu), is_epp_supported(ep.u, cpu))

EppGetPolicy ==
    /\ ep.kind = "EPP"
    /\ \E cpu \in EPCPUs :
         EpCall("get_policy", cpu, None, <<>>,
                _get_cpu_epp_policy(ep.c, cpu), _get_cpu_epp_policy(ep.u, cpu))

EppGet ==
    /\ ep.kind = "EPP"
    /\ \E cpu \in EPCPUs :
         EpCall("get", cpu, None, <<>>, _get_cpu_epp(ep.c, cpu), _get_cpu_epp(ep.u, cpu))

EppSet ==
    /\ ep.kind = "EPP"
    /\ \E cpu \in EPCPUs, epp \in EppVals :
         EpCall("set", cpu, epp, <<>>, _set_cpu_epp(ep.c, epp, cpu), _set_cpu_epp(ep.u, epp, cpu))

AspmSetPolicy ==
    /\ ep.kind = "ASPM"
    /\ \E policy \in {"performance", "powersave", "bogus"} :
         EpCall("set", 0, policy, <<>>, set_policy(ep.c, policy), set_policy(ep.u, policy))

AspmGetPolicy ==
    /\ ep.kind = "ASPM"
    /\ EpCall("get", 0, None, <<>>, get_policy(ep.c), get_policy(ep.u))

EpNext ==
    \/ EpbGet
    \/ EpbSet
    \/ EppIsSupported
    \/ EppGetPolicy
    \/ EppGet
    \/ EppSet
    \/ AspmSetPolicy
    \/ AspmGetPolicy

SpecEP == EpInit /\ [][EpNext]_vars

(***************************************************************************)
(* Properties of the EPB, EPP and ASPM objects.                            *)
(***************************************************************************)
\* The call read exactly one cache key: the EPB sysfs value of a CPU, or whether a CPU
\* supports EPP.
KeyRead(call) ==
    \/ ep.kind = "EPB" /\ call.op = "get" /\ Head(call.mnames) = "sysfs"
    \/ ep.kind = "EPP" /\ call.op = "is_epp_supported"

SameKey(a, b) == a.op = b.op /\ a.cpu = b.cpu

\* C11: with caching enabled, two consecutive reads of the same (property, CPU,
\* mechanism) key return the same value and access the underlying file at most once in
\* total, also when the file is absent.
C11_ReadOnce ==
    [][(KeyRead(ep.last) /\ KeyRead(ep'.last) /\ SameKey(ep.last, ep'.last)) =>
          /\ (ep'.last.mnames = ep.last.mnames) => (ep'.last.c.val = ep.last.c.val)
          /\ ep'.last.c.exc = "" /\ ep.last.c.exc = ""
          /\ ep.last.c.nfile + ep'.last.c.nfile <= 1]_vars

\* The absent EPB sysfs file was read a second time: the memoized absence was returned.
C11_Witness ==
    /\ ep.kind = "EPB" /\ ~ep.plat.sysfs
    /\ ep.last.op = "get" /\ ep.last.mnames = <<"sysfs">>
    /\ ep.last.c.val = None /\ ep.last.c.hits = 1 /\ ep.last.c.nfile = 0

\* C12: after a set of EPB or EPP on a CPU that attempted a write, no entry cached
\* before the write is left in the cache and no later read returns such an entry.
C12_NoStaleEntry ==
    ep.kind \in {"EPB", "EPP"} =>
       /\ \A k \in CacheKeys, cpu \in EPCPUs : ~ep.c.cache[k][cpu].old
       /\ ~ep.last.c.old

\* What holds: EPB removes the entry before every sysfs write.
C12_NoStaleEntryEPB ==
    ep.kind = "EPB" =>
       /\ \A k \in CacheKeys, cpu \in EPCPUs : ~ep.c.cache[k][cpu].old
       /\ ~ep.last.c.old

OtherFailure(call) ==
    /\ ep.kind \in {"EPB", "EPP"} /\ call.op = "set"
    /\ call.c.nwr > 0 /\ ep.plat.sysfs /\ ep.plat.wfail # ""

Denied(call) ==
    /\ call.op = "set" /\ call.c.nwr > 0
    /\ ep.plat.sysfs /\ ep.plat.wfail = "ErrorPermissionDenied"

\* C15: a PermissionDenied failure of the host accessor during a write reaches the
\* caller as ErrorPermissionDenied, and the write is attempted once.
C15_PermissionDeniedPreserved ==
    Denied(ep.last) =>
       /\ ep.last.c.exc = "ErrorPermissionDenied"
       /\ ep.last.c.nwr = 1 /\ ep.last.c.nmsrw = 0

\* What holds: ASPM and EPB preserve the kind of the failure.
C15_PermissionDeniedPreservedButEPP ==
    (Denied(ep.last) /\ ep.kind # "EPP") =>
       /\ ep.last.c.exc = "ErrorPermissionDenied"
       /\ ep.last.c.nwr = 1 /\ ep.last.c.nmsrw = 0

(***************************************************************************)
(* Ownership and teardown (pepclibs/helperlibs/ClassHelpers.py close(),    *)
(* the constructors and close() of PropsClassBase, Power and EPP).         *)
(*                                                                         *)
(* own.attr[a] tells what the attribute 'a' of the object refers to:       *)
(* "missing" (never assigned), "None", or "obj" (an accessor);             *)
(* own.made[a] remembers who constructed that accessor, own.nclose[a]      *)
(* counts the calls of its close() and own.order lists them in order.      *)
(***************************************************************************)
\* The most calls of close() on one object.
MaxCloses == 2

OwnClasses == {"Power", "EPP", "EPB"}
Flagged == {"_pman", "_cpuinfo", "_msr"}
Lazy(cls) == IF cls = "Power" THEN {"_pplobj", "_ppiobj"}
             ELSE IF cls = "EPP" THEN {"_hwpreq", "_hwpreq_pkg"}
             ELSE {"_epb_msr"}
OwnAttrs == Flagged \cup Lazy("Power") \cup Lazy("EPP") \cup Lazy("EPB") \cup {"_pcache"}

\* The close() of the base class of EPB: the accessors the base class holds.
EPBase_close_attrs == <<"_msr", "_cpuinfo", "_pman", "_pcache">>

\* Mutant: the close() of the base class runs before the feature accessors are closed.
close_attrs_base_first(cls) ==
    IF cls = "Power" THEN <<"_msr", "_cpuinfo", "_pman", "_pplobj", "_ppiobj">>
    ELSE IF cls = "EPP" THEN <<"_msr", "_cpuinfo", "_pman", "_pcache", "_hwpreq", "_hwpreq_pkg">>
    ELSE EPBase_close_attrs \o <<"_epb_msr">>

\* The 'close_attrs' of close(), in the order they are closed: the ones of the class,
\* then, for Power and EPB, the ones of super().close().
close_attrs(cls) ==
    IF cls = "Power" THEN <<"_pplobj", "_ppiobj">> \o <<"_msr", "_cpuinfo", "_pman">>
    ELSE IF cls = "EPP" THEN <<"_hwpreq", "_hwpreq_pkg", "_msr", "_cpuinfo", "_pman", "_pcache">>
    ELSE <<"_epb_msr">> \o EPBase_close_attrs

\* 'self.<attr> = <an accessor constructed here>'.
Construct(o, attr) == [o EXCEPT !.attr[attr] = "obj", !.made[attr] = "own"]

\* __init__() up to the statement that raises: "args" (the call itself fails, nothing
\* is assigned), "pman" (LocalProcessManager() raises), "cpuinfo" (CPUInfo() raises),
\* "last" (the last statement raises: the vendor check of EPP, _init_props_dict() of
\* Power) or "" (no failure).
__init__(o, given, abort) ==
    LET a1 == [o EXCEPT
                 !.attr = [a \in OwnAttrs |->
                             IF a \in Flagged THEN IF a \in given THEN "obj" ELSE "None"
                             ELSE IF o.cls # "Power" /\ a \in Lazy(o.cls) THEN "None"
                             ELSE "missing"],
                 !.made = [a \in OwnAttrs |-> IF a \in given THEN "caller" ELSE "none"],
                 !.flag = [a \in Flagged |-> IF a \in given THEN "False" ELSE "True"]]
        a2 == IF a1.attr["_pman"] = "None" THEN Construct(a1, "_pman") ELSE a1
        a3 == IF a2.attr["_cpuinfo"] = "None" THEN Construct(a2, "_cpuinfo") ELSE a2
        a4 == IF o.cls # "Power" THEN Construct(a3, "_pcache")
              ELSE [a3 EXCEPT !.attr["_pplobj"] = "None", !.attr["_ppiobj"] = "None"]
    IN CASE abort = "args" -> [o EXCEPT !.phase = "aborted"]
         [] abort = "pman" -> [a1 EXCEPT !.phase = "aborted"]
         [] abort = "cpuinfo" -> [a2 EXCEPT !.phase = "aborted"]
         [] abort = "last" -> [a4 EXCEPT !.phase = "aborted"]
         [] OTHER -> [a4 EXCEPT !.phase = "ready"]

\* _get_msr(): the MSR object is constructed on first use.
_get_msr(o) == IF o.attr["_msr"] # "obj" THEN Construct(o, "_msr") ELSE o

\* _get_pplobj(), _get_ppiobj(), _get_hwpreq(), _get_hwpreq_pkg(), _get_epb_msr().
_get_feature(o, attr) ==
    IF o.attr[attr] # "obj" THEN Construct(_get_msr(o), attr) ELSE o

\* Mutant: the '_close_<attr>' flag is not consulted.
close_attr_noflag(o, attr) ==
    IF o.attr[attr] # "obj" THEN o
    ELSE [o EXCEPT !.nclose[attr] = @ + 1, !.attr[attr] = "None",
                   !.order = Append(@, attr)]

\* Mutant: the attribute is not set to None after the accessor was closed.
close_attr_keepref(o, attr) ==
    IF o.attr[attr] # "obj" THEN o
    ELSE LET run_close == IF attr \in Flagged /\ o.flag[attr] # "missing"
                          THEN o.flag[attr] = "True" ELSE TRUE
         IN [o EXCEPT !.nclose[attr] = IF run_close THEN @ + 1 ELSE @,
                      !.order = IF run_close THEN Append(@, attr) ELSE @]

\* The body of the loop of ClassHelpers.close() for one attribute of 'close_attrs'.
close_attr(o, attr) ==
    IF o.attr[attr] # "obj" THEN o
    ELSE LET run_close == IF attr \in Flagged /\ o.flag[attr] # "missing"
                          THEN o.flag[attr] = "True" ELSE TRUE
         IN [o EXCEPT !.nclose[attr] = IF run_close THEN @ + 1 ELSE @,
                      !.order = IF run_close THEN Append(@, attr) ELSE @,
                      !.attr[attr] = "None"]

RECURSIVE ClassHelpers_close(_, _)
ClassHelpers_close(o, attrs) ==
    IF attrs = <<>> THEN o
    ELSE ClassHelpers_close(close_attr(o, Head(attrs)), Tail(attrs))

\* The object before __init__() runs.
OwnNew(cls, given) ==
    [cls |-> cls, given |-> given, phase |-> "new", ncalls |-> 0,
     attr |-> [a \in OwnAttrs |-> "missing"],
     flag |-> [a \in Flagged |-> "missing"],
     made |-> [a \in OwnAttrs |-> "none"],
     nclose |-> [a \in OwnAttrs |-> 0],
     order |-> <<>>]

OwnInit ==
    /\ \E cls \in OwnClasses, given \in SUBSET Flagged : own = OwnNew(cls, given)
    /\ topo = Unused /\ props = Unused /\ avail = Unused /\ hwval = Unused
    /\ last = Unused /\ prev = Unused /\ ep = Unused /\ st = Unused

OwnRest == <<topo, props, avail, hwval, last, prev, ep, st>>

OwnConstruct ==
    /\ own.phase = "new"
    /\ \E abort \in {"", "args", "pman", "cpuinfo", "last"} :
         /\ abort = "pman" => "_pman" \notin own.given
         /\ abort = "cpuinfo" => "_cpuinfo" \notin own.given
         /\ own' = __init__(own, own.given, abort)
    /\ UNCHANGED OwnRest

OwnUseMsr ==
    /\ own.phase = "ready"
    /\ own' = _get_msr(own)
    /\ UNCHANGED OwnRest

OwnUseFeature ==
    /\ own.phase = "ready"
    /\ \E attr \in Lazy(own.cls) : own' = _get_feature(own, attr)
    /\ UNCHANGED OwnRest

OwnClose ==
    /\ own.phase # "new"
    /\ own.ncalls < MaxCloses
    /\ own' = [ClassHelpers_close(own, close_attrs(own.cls))
                  EXCEPT !.phase = "closed", !.ncalls = @ + 1]
    /\ UNCHANGED OwnRest

OwnNext ==
    \/ OwnConstruct
    \/ OwnUseMsr
    \/ OwnUseFeature
    \/ OwnClose

SpecOwn == OwnInit /\ [][OwnNext]_vars

(***************************************************************************)
(* Properties of teardown.                                                 *)
(***************************************************************************)
\* C16: an accessor supplied by the caller is never closed; after close() every
\* accessor the object constructed, at construction or on first use, has been closed;
\* for the attributes with a '_close_<attr>' flag the accessor is closed exactly if the
\* flag assigned by __init__() is True.
C16_OwnedClosedGivenKept ==
    /\ \A a \in OwnAttrs : own.made[a] = "caller" => own.nclose[a] = 0
    /\ own.phase = "closed" =>
          /\ \A a \in OwnAttrs : own.made[a] = "own" => own.nclose[a] >= 1
          /\ \A a \in Flagged :
                own.made[a] # "none" => ((own.nclose[a] >= 1) = (a \notin own.given))

\* An object given a process manager was closed after it had constructed its CPU
\* information object and, on first use, its MSR object and a feature object.
C16_Witness ==
    /\ own.phase = "closed" /\ own.given = {"_pman"}
    /\ own.made["_pman"] = "caller" /\ own.nclose["_pman"] = 0
    /\ own.made["_msr"] = "own" /\ own.nclose["_msr"] = 1
    /\ own.nclose["_cpuinfo"] = 1
    /\ \E a \in Lazy(own.cls) : own.made[a] = "own" /\ own.nclose[a] = 1

\* C17: however often close() is called, also after __init__() failed part-way, the
\* close() of an accessor is called at most once, every call of close() returns, and
\* afterwards the object refers to no accessor.
C17_CloseIdempotent ==
    /\ \A a \in OwnAttrs : own.nclose[a] <= 1
    /\ own.phase = "closed" =>
          \A i \in 1..Len(close_attrs(own.cls)) : own.attr[close_attrs(own.cls)[i]] # "obj"

\* close() was called twice on an object whose constructor failed in CPUInfo(): the
\* process manager it had constructed was closed once.
C17_Witness ==
    /\ own.phase = "closed" /\ own.ncalls = 2
    /\ own.attr["_pcache"] = "missing" /\ own.flag["_pman"] = "True"
    /\ own.made["_pman"] = "own" /\ own.nclose["_pman"] = 1
    /\ own.made["_cpuinfo"] = "none"

(***************************************************************************)
(* The special target "all" of the per-die calls.                          *)
(***************************************************************************)
\* The layer of an accessor: a feature accessor uses the MSR object, which uses the
\* CPU information object, which uses the process manager.
Layer(attr) == CASE attr = "_msr" -> 2 [] attr = "_cpuinfo" -> 3 [] attr = "_pman" -> 4
                 [] OTHER -> 1

C19_AllMeansEveryDie ==
    /\ last.op = "get_prop_dies_all" =>
          LET r == get_prop_dies(last.pname, AllDies, last.given, last.mnames)
          IN r.exc = "" => /\ last.exc = ""
                           /\ last.ret = r.ret
                           /\ Len(last.ret) = Cardinality(AllDies)
    /\ last.op = "set_prop_dies_all" =>
          LET w == set_prop_dies(last.pname, last.val, AllDies, last.given, last.mnames)
          IN w.exc = "" => last.exc = "" /\ last.writes = w.writes

(***************************************************************************)
(* The setter of the command-line tool (pepctool/_PepcSetter.py) on a      *)
(* C-states object.  st.hw[key][cpu] is the setting 'key' of a CPU in the  *)
(* hardware, st.msr the MSR object the setter was constructed with:        *)
(* whether a transaction is open and the writes it has buffered.           *)
(***************************************************************************)
StCPUs == {0, 1, 2}

\* The requestable C-states (get_cstates_info()) and the writable properties of the
\* C-states object with the mechanism and the values of each.
CSNAMES == {"C6"}
StProps ==
    [c1_demotion |-> [mname |-> "msr", vals |-> {"on", "off"}],
     governor |-> [mname |-> "sysfs", vals |-> {"menu", "teo"}]]
StKeys == <<"C6", "c1_demotion", "governor">>
StVals(key) == IF key \in CSNAMES THEN {"on", "off"} ELSE StProps[key].vals

NoBuf == [pname \in {"c1_demotion"} |-> [cpu \in StCPUs |-> None]]
NewMSR == [intrans |-> FALSE, buf |-> NoBuf]

StRaise(s, exc) == [s EXCEPT !.exc = exc]

\* MSR.start_transaction(): starting a transaction while one is open is an error.
start_transaction(s) ==
    IF s.msr.intrans THEN [s EXCEPT !.exc = "Error", !.nested = TRUE]
    ELSE [s EXCEPT !.msr.intrans = TRUE]

\* MSR.commit_transaction(): the buffered writes reach the hardware.
commit_transaction(s) ==
    IF ~s.msr.intrans THEN StRaise(s, "Error")
    ELSE [s EXCEPT !.hw = [key \in DOMAIN s.hw |->
                             IF key \in DOMAIN s.msr.buf
                             THEN [cpu \in StCPUs |->
                                     IF s.msr.buf[key][cpu] # None THEN s.msr.buf[key][cpu]
                                     ELSE s.hw[key][cpu]]
                             ELSE s.hw[key]],
                   !.msr = NewMSR]

\* A write of an MSR-backed property: buffered while a transaction is open.
msr_write(s, pname, val, cpus) ==
    IF s.msr.intrans
    THEN [s EXCEPT !.msr.buf[pname] = [cpu \in StCPUs |-> IF cpu \in cpus THEN val ELSE @[cpu]]]
    ELSE [s EXCEPT !.hw[pname] = [cpu \in StCPUs |-> IF cpu \in cpus THEN val ELSE @[cpu]]]

\* set_prop() of the properties object: the set contract.  The governor is one setting
\* of the whole system.
pobj_set_prop(s, pname, val, cpus) ==
    IF pname \notin DOMAIN StProps THEN StRaise(s, "Error")
    ELSE IF pname = "c1_demotion" /\ ~s.supp THEN StRaise(s, "ErrorNotSupported")
    ELSE IF val \notin StProps[pname].vals THEN StRaise(s, "Error")
    ELSE IF ~(cpus \subseteq StCPUs) THEN StRaise(s, "Error")
    ELSE IF StProps[pname].mname = "msr" THEN msr_write(s, pname, val, cpus)
    ELSE [s EXCEPT !.hw[pname] = [cpu \in StCPUs |-> val]]

\* enable_cstates() (val = "on") and disable_cstates() (val = "off").
pobj_enable_cstates(s, csname, cpus, val) ==
    IF csname \notin CSNAMES \/ ~(cpus \subseteq StCPUs) THEN StRaise(s, "Error")
    ELSE [s EXCEPT !.hw[csname] = [cpu \in StCPUs |-> IF cpu \in cpus THEN val ELSE @[cpu]]]

\* _PropsSetter._set_prop() for one item <<pname, value>> of 'spinfo'; the C-states
\* object has none of the frequency properties.
_set_prop(s, item, cpus) == pobj_set_prop(s, item[1], item[2], cpus)

RECURSIVE SetItems(_, _, _)
SetItems(s, spinfo, cpus) ==
    IF spinfo = <<>> \/ s.exc # "" THEN s
    ELSE SetItems(_set_prop(s, Head(spinfo), cpus), Tail(spinfo), cpus)

\* _PropsSetter.set_props(): 'spinfo' as the sequence of its items.
set_props(s, spinfo, cpus) ==
    LET s1 == IF s.hasmsr THEN start_transaction(s) ELSE s
        s2 == SetItems(s1, spinfo, cpus)
    IN IF s2.exc = "" /\ s.hasmsr THEN commit_transaction(s2) ELSE s2

\* CStatesSetter.set_cstates().
set_cstates(s, csname, cpus, enable) ==
    pobj_enable_cstates(s, csname, cpus, IF enable THEN "on" ELSE "off")

(***************************************************************************)
(* Snapshots.  A snapshot is the sequence of its entries                   *)
(* [key, value, cpus]; the 'cpus' string is the sequence of its            *)
(* comma-separated items, <<n>> for "n" and <<a, b>> for "a-b".            *)
(***************************************************************************)
\* The runs of consecutive numbers of an ascending sequence.
RECURSIVE Groups(_)
Groups(nums) ==
    IF nums = <<>> THEN <<>>
    ELSE LET rest == Groups(Tail(nums))
         IN IF rest # <<>> /\ Head(rest)[1] = Head(nums) + 1
            THEN <<<<Head(nums)>> \o Head(rest)>> \o Tail(rest)
            ELSE <<<<Head(nums)>>>> \o rest

RECURSIVE RangeStrs(_)
RangeStrs(groups) ==
    IF groups = <<>> THEN <<>>
    ELSE LET nums == Head(groups)
         IN (IF Len(nums) > 2 THEN <<<<nums[1], nums[Len(nums)]>>>>
             ELSE [i \in 1..Len(nums) |-> <<nums[i]>>]) \o RangeStrs(Tail(groups))

\* Human.rangify().
rangify(numbers) == RangeStrs(Groups(SortedSeq(numbers)))

\* ArgParse.parse_int_list(): the numbers of a string of numbers and ranges.
parse_int_list(string) ==
    UNION {IF Len(string[i]) = 1 THEN {string[i][1]} ELSE string[i][1]..string[i][2]
           : i \in 1..Len(string)}

\* _PepcCommon.parse_cpus_string(); a snapshot does not hold the string "all".
parse_cpus_string(string) == parse_int_list(string)

Entry(key, value, cpus) == [key |-> key, value |-> value, cpus |-> cpus]

\* The entries of one key: the CPUs grouped by value, in the order of their first CPU.
RECURSIVE KeyEntries(_, _, _)
KeyEntries(s, key, cpus) ==
    IF cpus = {} THEN <<>>
    ELSE LET value == s.hw[key][Min(cpus)]
             same == {cpu \in cpus : s.hw[key][cpu] = value}
         IN <<Entry(key, value, rangify(same))>> \o KeyEntries(s, key, cpus \ same)

\* What 'cstates save' writes: the C-states, then the writable, supported properties.
RECURSIVE SaveKeys(_, _)
SaveKeys(s, keys) ==
    IF keys = <<>> THEN <<>>
    ELSE (IF Head(keys) = "c1_demotion" /\ ~s.supp THEN <<>>
          ELSE KeyEntries(s, Head(keys), StCPUs)) \o SaveKeys(s, Tail(keys))

save(s) == SaveKeys(s, StKeys)

\* The snapshot with every "on" swapped with "off".
Swap(ydict) ==
    [i \in 1..Len(ydict) |->
       [ydict[i] EXCEPT !.value = IF @ = "on" THEN "off" ELSE IF @ = "off" THEN "on" ELSE @]]

(***************************************************************************)
(* Restoring a snapshot.                                                   *)
(***************************************************************************)
\* _PropsSetter._validate_loaded_data(): a key that is not known is an error.
_validate_loaded_data(ydict, known_ykeys) ==
    IF \E i \in 1..Len(ydict) : ydict[i].key \notin known_ykeys THEN "Error" ELSE ""

\* _PropsSetter._restore_prop(): the set raises ErrorFreqOrder for frequency properties
\* only.
_restore_prop(s, pname, val, cpus) == pobj_set_prop(s, pname, val, cpus)

RECURSIVE RestoreEntries(_, _)
RestoreEntries(s, ydict) ==
    IF ydict = <<>> \/ s.exc # "" THEN s
    ELSE RestoreEntries(_restore_prop(s, Head(ydict).key, Head(ydict).value,
                                      parse_cpus_string(Head(ydict).cpus)),
                        Tail(ydict))

\* Mutant: the transaction is not committed.
_restore_props_nocommit(s, ydict) ==
    LET s1 == IF s.hasmsr THEN start_transaction(s) ELSE s
    IN RestoreEntries(s1, ydict)

\* _PropsSetter._restore_props().
_restore_props(s, ydict) ==
    LET s1 == IF s.hasmsr THEN start_transaction(s) ELSE s
        s2 == RestoreEntries(s1, ydict)
    IN IF s2.exc = "" /\ s.hasmsr THEN commit_transaction(s2) ELSE s2

\* CStatesSetter._restore_cstates().
RECURSIVE _restore_cstates(_, _)
_restore_cstates(s, ydict) ==
    IF ydict = <<>> \/ s.exc # "" THEN s
    ELSE LET yval == Head(ydict)
             cpus == parse_cpus_string(yval.cpus)
         IN _restore_cstates(IF yval.value = "on"
                             THEN pobj_enable_cstates(s, yval.key, cpus, "on")
                             ELSE IF yval.value = "off"
                             THEN pobj_enable_cstates(s, yval.key, cpus, "off")
                             ELSE StRaise(s, "Error"),
                             Tail(ydict))

IsCState(yval) == yval.key \in CSNAMES
IsProp(yval) == yval.key \notin CSNAMES

\* CStatesSetter.restore().
restore(s, ydict) ==
    LET e == _validate_loaded_data(ydict, DOMAIN StProps \cup CSNAMES)
        s1 == _restore_cstates(s, SelectSeq(ydict, IsCState))
    IN IF e # "" THEN StRaise(s, e)
       ELSE IF s1.exc # "" THEN s1
       ELSE _restore_props(s1, SelectSeq(ydict, IsProp))

(***************************************************************************)
(* Calls of one setter object.                                             *)
(***************************************************************************)
HwStates ==
    {h \in [{"C6", "c1_demotion", "governor"} -> [StCPUs -> {"on", "off", "menu", "teo"}]] :
       /\ \A key \in DOMAIN h, cpu \in StCPUs : h[key][cpu] \in StVals(key)
       /\ \A c1, c2 \in StCPUs : h["governor"][c1] = h["governor"][c2]}

Setter(hw, supp, hasmsr) ==
    [hw |-> hw, supp |-> supp, hasmsr |-> hasmsr, msr |-> NewMSR, exc |-> "",
     nested |-> FALSE, op |-> "none", prevop |-> "none", saved |-> <<>>, file |-> <<>>,
     changed |-> FALSE]

StRest == <<topo, props, avail, hwval, last, prev, ep, own>>

StUnused ==
    /\ topo = Unused /\ props = Unused /\ avail = Unused /\ hwval = Unused
    /\ last = Unused /\ prev = Unused /\ ep = Unused /\ own = Unused

StInit ==
    /\ \E hw \in HwStates, supp \in BOOLEAN, hasmsr \in BOOLEAN : st = Setter(hw, supp, hasmsr)
    /\ StUnused

\* The call 'op' took the setter from 'st' to 'r'; 'changed' tells whether it changed
\* the hardware.
StCall(op, r) == [r EXCEPT !.op = op, !.prevop = st.op, !.changed = (r.hw # st.hw)]
Entered == [st EXCEPT !.exc = ""]

Spinfos ==
    LET items == {<<"c1_demotion", "on">>, <<"c1_demotion", "off">>,
                  <<"governor", "teo">>, <<"governor", "bogus">>}
    IN {<<i>> : i \in items}
       \cup {<<i, j>> : i \in {x \in items : x[1] = "c1_demotion"},
                        j \in {x \in items : x[1] = "governor"}}

SetProps ==
    /\ \E spinfo \in Spinfos, cpus \in {StCPUs, {1}} :
         st' = StCall("set_props", set_props(Entered, spinfo, cpus))
    /\ UNCHANGED StRest

SetCStates ==
    /\ \E cpus \in {StCPUs, {1}}, enable \in BOOLEAN :
         st' = StCall("set_cstates", set_cstates(Entered, "C6", cpus, enable))
    /\ UNCHANGED StRest

\* Snapshot files: what 'save' would write now, the same swapped, and files with a
\* value the key does not take or with an unknown key.
Files ==
    {save(st), Swap(save(st)),
     <<Entry("governor", "menu", rangify(StCPUs)), Entry("c1_demotion", "bogus", rangify({0}))>>,
     <<Entry("C6", "bogus", rangify({0, 1}))>>,
     <<Entry("bogus", "on", rangify({0}))>>}

Restore ==
    /\ \E ydict \in Files :
         st' = StCall("restore", restore(Entered, ydict))
    /\ UNCHANGED StRest

StNext ==
    \/ SetProps
    \/ SetCStates
    \/ Restore

SpecSetter == StInit /\ [][StNext]_vars

(***************************************************************************)
(* Properties of the setter.                                               *)
(***************************************************************************)
\* C18: when set_props() or restore() has returned or raised, no transaction is open,
\* and no call has started a transaction while one was open.
C18_TransactionsClosed ==
    /\ st.op \in {"set_props", "restore"} => ~st.msr.intrans
    /\ ~st.nested


(***************************************************************************)
(* The 'cstates save' and 'cstates restore' commands                       *)
(* (pepctool/_PepcCStates.py): every command constructs its own MSR object *)
(* and setter.                                                             *)
(***************************************************************************)
CmdInit ==
    /\ \E hw \in HwStates, supp \in BOOLEAN : st = Setter(hw, supp, TRUE)
    /\ StUnused

\* The setter a command constructs.
CmdSetter == [st EXCEPT !.exc = "", !.msr = NewMSR, !.hasmsr = TRUE]

\* cstates_save_command().
CmdSave ==
    /\ st' = [st EXCEPT !.saved = save(st), !.exc = "", !.op = "save", !.prevop = st.op]
    /\ UNCHANGED StRest

\* cstates_restore_command() with the file written by the last 'save', as it is or
\* with "on" and "off" swapped.
CmdRestore ==
    /\ st.op = "save"
    /\ \E ydict \in {st.saved, Swap(st.saved)} :
         st' = [StCall("restore", restore(CmdSetter, ydict)) EXCEPT !.file = ydict]
    /\ UNCHANGED StRest

CmdNext ==
    \/ CmdSave
    \/ CmdRestore

SpecSaveRestore == CmdInit /\ [][CmdNext]_vars

\* C20: 'restore' of a saved snapshot, unchanged or with every "on" swapped with "off",
\* raises nothing, and the 'save' that follows it writes exactly the restored snapshot.
C20_RoundTrip ==
    /\ st.op = "restore" => st.exc = ""
    /\ (st.op = "save" /\ st.prevop = "restore") => st.saved = st.file

\* A snapshot in which C6 and C1 demotion differ between CPUs was restored, which
\* changed the hardware, and saved again.
C20_Witness ==
    /\ st.op = "save" /\ st.prevop = "restore" /\ st.supp /\ st.changed
    /\ st.hw["C6"][0] # st.hw["C6"][2]
    /\ st.hw["c1_demotion"][0] # st.hw["c1_demotion"][1]
    /\ Len(st.file) = 5
    /\ \E i \in 1..Len(st.file) : st.file[i].key = "c1_demotion" /\ st.file[i].value = "off"

(***************************************************************************)
(* Scope and I/O scope of the registry.  Some properties are declared with *)
(* no scope (None); the sub-class assigns it on first use from what it     *)
(* detects on the platform ('avail' holds the detected scope of each such  *)
(* property, None when the platform does not support the property).        *)
(***************************************************************************)
Scopes == <<"CPU", "core", "die", "package", "global">>
ScopeRank(sname) == CHOOSE i \in 1..Len(Scopes) : Scopes[i] = sname

\* The properties declared with "sname": None.
LateScoped == {"c1_demotion", "epb", "uncore_ratio"}
PROPS_unset ==
    [p \in DOMAIN PROPS |-> IF p \in LateScoped THEN [PROPS[p] EXCEPT !.sname = None]
                            ELSE PROPS[p]]

\* _set_sname() of the sub-class: nothing to do when the scope is set; otherwise the
\* detected scope becomes the scope and, with no override, the I/O scope.
_set_sname_subclass(reg, detected, pname) ==
    IF reg[pname].sname # None THEN [exc |-> "", reg |-> reg]
    ELSE IF detected[pname] = None THEN [exc |-> "ErrorNotSupported", reg |-> reg]
    ELSE [exc |-> "",
          reg |-> [reg EXCEPT ![pname].sname = detected[pname],
                              ![pname].iosname = detected[pname]]]

\* PropsClassBase.get_sname().
get_sname(reg, detected, pname) ==
    IF pname \notin DOMAIN reg THEN [exc |-> "Error", ret |-> None, reg |-> reg]
    ELSE LET r == _set_sname_subclass(reg, detected, pname)
         IN IF r.exc = "ErrorNotSupported" THEN [exc |-> "", ret |-> None, reg |-> reg]
            ELSE [exc |-> "", ret |-> r.reg[pname].sname, reg |-> r.reg]

\* 'if prop["sname"] != prop["iosname"]' of _get_die_prop_pvinfo() and
\* _get_package_prop_pvinfo(): whether the per-CPU agreement check runs.
IoScopeChecked(reg, pname) == reg[pname].sname # reg[pname].iosname

ScopeInit ==
    /\ props = _init_props_dict(PROPS_unset)
    /\ avail \in [LateScoped -> {None, "CPU", "core", "package"}]
    /\ last = [op |-> "none", pname |-> "", exc |-> "", ret |-> None, checked |-> FALSE]
    /\ topo = Unused /\ hwval = Unused /\ prev = Unused
    /\ ep = Unused /\ own = Unused /\ st = Unused

ScopeRest == <<topo, avail, hwval, prev, ep, own, st>>

GetSname ==
    /\ \E pname \in Pnames \cup {UnknownPname} :
         LET r == get_sname(props, avail, pname)
         IN /\ props' = r.reg
            /\ last' = [op |-> "get_sname", pname |-> pname, exc |-> r.exc, ret |-> r.ret,
                        checked |-> FALSE]
    /\ UNCHANGED ScopeRest

\* A per-die or per-package read of a property with a scope.
UnitRead ==
    /\ \E pname \in Pnames :
         LET r == _set_sname_subclass(props, avail, pname)
         IN /\ r.exc = ""
            /\ props' = r.reg
            /\ last' = [op |-> "unit_read", pname |-> pname, exc |-> "", ret |-> None,
                        checked |-> IoScopeChecked(r.reg, pname)]
    /\ UNCHANGED ScopeRest

ScopeNext ==
    \/ GetSname
    \/ UnitRead

SpecScope == ScopeInit /\ [][ScopeNext]_vars

Missing == "missing"

\* Where __init__() stops: "" (it completes), "args" (before the first assignment),
\* or the call that raises.
TpmiAborts == {"", "args", "_find_spec_dirs", "mount_debugfs", "_get_debugfs_tpmi_dirs",
               "_scan_spec_dirs", "_build_features_map"}

\* What the process manager and the file-system helper do on this host: whether
\* mount_debugfs() had to mount debugfs (and so asks for an unmount), and whether
\* running the unmount command fails with Error.
TpmiHosts == [mounts : BOOLEAN, runfails : BOOLEAN]

TpmiNew(host, specdirs) ==
    [cls |-> "Tpmi", host |-> host, specdirs |-> specdirs, phase |-> "new",
     _pman |-> Missing, _debugfs_mnt |-> Missing, _unmount_debugfs |-> Missing,
     _fdict_cache |-> Missing, ncalls |-> 0, nrun |-> 0, exc |-> ""]

\* FSHelpers.mount_debugfs(): the mount point and whether the caller has to unmount.
mount_debugfs(host) == <<"/sys/kernel/debug", IF host.mounts THEN "True" ELSE "False">>

\* Tpmi.__init__().
Tpmi__init__(o, abort) ==
    IF abort = "args" THEN [o EXCEPT !.phase = "failed"]
    ELSE LET o1 == [o EXCEPT !._pman = "obj", !._fdict_cache = {}, !._debugfs_mnt = None,
                             !._unmount_debugfs = None]
             o2 == [o1 EXCEPT !._debugfs_mnt = mount_debugfs(o.host)[1],
                              !._unmount_debugfs = mount_debugfs(o.host)[2]]
         IN IF abort = "_find_spec_dirs" \/ abort = "mount_debugfs"
            THEN [o1 EXCEPT !.phase = "failed"]
            ELSE IF abort = "" THEN [o2 EXCEPT !.phase = "ready"]
            ELSE [o2 EXCEPT !.phase = "failed"]

\* Tpmi._get_fdict(): the feature dictionary is loaded once and then cached.
TpmiFeatures == {"rapl", "ufs"}
_get_fdict(o, fname) == [o EXCEPT !._fdict_cache = @ \cup {fname}]

\* 'getattr(self, "_unmount_debugfs", None)' as a condition.
Truthy(v) == v = "True"

\* ClassHelpers.close(self, unref_attrs=("_pman",)): an existing attribute becomes None.
unref_attrs(o) == IF o._pman = Missing THEN o ELSE [o EXCEPT !._pman = None]

\* Tpmi.close(): the unmount command runs when the flag is set, with Error suppressed;
\* 'self._pman.run' on a '_pman' that is None raises AttributeError, which is not an
\* Error, and the rest of close() is skipped.
Tpmi_close(o) ==
    LET o1 == [o EXCEPT !.ncalls = @ + 1, !.exc = ""]
    IN IF Truthy(o._unmount_debugfs)
       THEN IF o._pman = "obj"
            THEN unref_attrs([o1 EXCEPT !.nrun = @ + 1])
            ELSE [o1 EXCEPT !.exc = "AttributeError"]
       ELSE unref_attrs(o1)

TpmiInit ==
    /\ own \in {TpmiNew(h, s) : h \in TpmiHosts, s \in {"given", "default"}}
    /\ topo = Unused /\ props = Unused /\ avail = Unused /\ hwval = Unused
    /\ last = Unused /\ prev = Unused /\ ep = Unused /\ st = Unused

TpmiRest == <<topo, props, avail, hwval, last, prev, ep, st>>

TpmiConstruct ==
    /\ own.phase = "new"
    /\ \E abort \in TpmiAborts :
         /\ (abort = "_find_spec_dirs" => own.specdirs = "default")
         /\ own' = Tpmi__init__(own, abort)
    /\ UNCHANGED TpmiRest

TpmiGetFdict ==
    /\ own.phase = "ready" /\ own.ncalls = 0
    /\ \E fname \in TpmiFeatures : own' = _get_fdict(own, fname)
    /\ UNCHANGED TpmiRest

TpmiClose ==
    /\ own.phase # "new"
    /\ own.ncalls < MaxCloses
    /\ own' = Tpmi_close(own)
    /\ UNCHANGED TpmiRest

TpmiNext ==
    \/ TpmiConstruct
    \/ TpmiGetFdict
    \/ TpmiClose

SpecTpmi == TpmiInit /\ [][TpmiNext]_vars

\* C27: close() of a Tpmi object never raises and runs the unmount command at most
\* once, however many times it is called, whether or not the object mounted debugfs
\* itself and also when the constructor failed.
C27_CloseTwice ==
    /\ own.exc = ""
    /\ own.nrun <= 1


\* ------------------------------------------------------------------------
\* Human.parse_human() (helperlibs/Human.py).  A string is the sequence of its
\* characters; a number is the pair <<m, e>> standing for m * 10^e, so that the
\* scalers from 10^-9 to 10^15 stay within the integers.
\* ------------------------------------------------------------------------

MaxN == 3

DigitChars == <<"1", "2", "3", "4", "5", "6", "7", "8", "9">>
DigitOf(c) == IF c = "0" THEN 0 ELSE CHOOSE i \in 1..Len(DigitChars) : DigitChars[i] = c
IsDigit(c) == c = "0" \/ c \in Range(DigitChars)

\* _SIPFX_FULLNAMES in its order, and _SIPFX_SCALERS as powers of ten.
_SIPFX_FULLNAMES == <<"E", "T", "G", "M", "k", "m", "u", "n">>
_SIPFX_SCALERS ==
    ("E" :> 15) @@ ("T" :> 12) @@ ("G" :> 9) @@ ("M" :> 6) @@ ("k" :> 3) @@
    ("m" :> -3) @@ ("u" :> -6) @@ ("n" :> -9)

RECURSIVE Pow10(_)
Pow10(k) == IF k = 0 THEN 1 ELSE 10 * Pow10(k - 1)

RECURSIVE Norm(_)
Norm(d) == IF d[1] = 0 THEN <<0, 0>>
           ELSE IF d[1] % 10 = 0 THEN Norm(<<d[1] \div 10, d[2] + 1>>)
           ELSE d

DecAdd(a, b) ==
    IF a[1] = 0 THEN Norm(b)
    ELSE IF b[1] = 0 THEN Norm(a)
    ELSE LET e == IF a[2] < b[2] THEN a[2] ELSE b[2]
         IN Norm(<<a[1] * Pow10(a[2] - e) + b[1] * Pow10(b[2] - e), e>>)

DecMul(n, d) == Norm(<<n * d[1], d[2]>>)

\* round(): to the nearest integer, halves to the even neighbour.
round(d) ==
    LET n == Norm(d)
    IN IF n[2] >= 0 THEN n
       ELSE IF -n[2] > 9 THEN <<0, 0>>
       ELSE LET p == Pow10(-n[2])
                q == n[1] \div p
                r == n[1] % p
            IN IF 2 * r > p \/ (2 * r = p /\ q % 2 = 1) THEN Norm(<<q + 1, 0>>)
               ELSE Norm(<<q, 0>>)

\* str.lower() over the characters in use.
LowerChar(c) == CASE c = "E" -> "e" [] c = "T" -> "t" [] c = "G" -> "g"
                  [] c = "M" -> "m" [] c = "H" -> "h" [] OTHER -> c
lower(s) == [i \in 1..Len(s) |-> LowerChar(s[i])]

\* str.split(sep, 1): <<s>> when 'sep' does not occur, else the text before and the
\* text after its first occurrence.
split(s, sep) ==
    LET hits == {i \in 1..(Len(s) - Len(sep) + 1) : SubSeq(s, i, i + Len(sep) - 1) = sep}
    IN IF hits = {} THEN <<s>>
       ELSE LET i == Min(hits)
            IN <<SubSeq(s, 1, i - 1), SubSeq(s, i + Len(sep), Len(s))>>

RECURSIVE strip(_)
strip(s) == IF s = <<>> THEN s
            ELSE IF Head(s) = " " THEN strip(Tail(s))
            ELSE IF s[Len(s)] = " " THEN strip(SubSeq(s, 1, Len(s) - 1))
            ELSE s

\* Trivial.is_num() of a string, and int() of it.
is_num(s) == strip(s) # <<>> /\ \A i \in 1..Len(strip(s)) : IsDigit(strip(s)[i])
RECURSIVE int(_)
int(s) == IF s = <<>> THEN 0 ELSE 10 * int(SubSeq(s, 1, Len(s) - 1)) + DigitOf(s[Len(s)])

\* separate_si_prefix().
separate_si_prefix(unit) ==
    IF Len(unit) < 2 THEN <<None, unit>>
    ELSE IF unit[1] \notin DOMAIN _SIPFX_SCALERS THEN <<None, unit>>
    ELSE <<unit[1], Tail(unit)>>

\* The loop of _tokenize() over the specifiers: the tokens found, in order, and the rest.
RECURSIVE TokenLoop(_, _, _)
TokenLoop(specs, rest, tokens) ==
    IF specs = <<>> THEN [tokens |-> tokens, rest |-> rest]
    ELSE LET parts == split(rest, lower(Head(specs)))
         IN IF Len(parts) > 1
            THEN TokenLoop(Tail(specs), parts[2], Append(tokens, <<Head(specs), parts[1]>>))
            ELSE TokenLoop(Tail(specs), parts[1], tokens)

\* _tokenize(): every amount must be a number (here: an integer).
_tokenize(hval, specs, multiple) ==
    LET l == TokenLoop(specs, lower(hval), <<>>)
    IN IF strip(l.rest) # <<>> THEN [exc |-> "Error", tokens |-> <<>>]
       ELSE IF ~multiple /\ Len(l.tokens) > 1 THEN [exc |-> "Error", tokens |-> <<>>]
       ELSE IF \E i \in 1..Len(l.tokens) : ~is_num(l.tokens[i][2])
            THEN [exc |-> "Error", tokens |-> <<>>]
       ELSE [exc |-> "",
             tokens |-> [i \in 1..Len(l.tokens) |->
                            <<l.tokens[i][1], int(strip(l.tokens[i][2]))>>]]

\* The specifiers dictionary of parse_human(), in insertion order, and its scalers.
Specs(unit, base_unit) ==
    [i \in 1..Len(_SIPFX_FULLNAMES) |-> <<_SIPFX_FULLNAMES[i]>> \o base_unit]
    \o (IF unit = <<"s">> THEN << <<"d">>, <<"h">>, <<"m">> >> ELSE <<>>)
    \o <<base_unit>>

Scaler(spec, base_unit) ==
    IF spec = <<"d">> THEN <<24 * 60 * 60, 0>>
    ELSE IF spec = <<"h">> THEN <<60 * 60, 0>>
    ELSE IF spec = <<"m">> THEN <<60, 0>>
    ELSE IF spec = base_unit THEN <<1, 0>>
    ELSE <<1, _SIPFX_SCALERS[spec[1]]>>

RECURSIVE SumTokens(_, _, _)
SumTokens(tokens, base_unit, result) ==
    IF tokens = <<>> THEN result
    ELSE SumTokens(Tail(tokens), base_unit,
                   DecAdd(result, DecMul(Head(tokens)[2], Scaler(Head(tokens)[1], base_unit))))

\* parse_human(hval, unit, target_unit, integer); an empty target_unit is None.
parse_human(hval, unit, target_unit, integer) ==
    LET sp == separate_si_prefix(unit)
        sipfx == sp[1]
        base_unit == sp[2]
        tsp == IF target_unit # <<>> THEN separate_si_prefix(target_unit)
               ELSE <<None, base_unit>>
        hval1 == IF is_num(hval)
                 THEN hval \o (IF sipfx # None THEN <<sipfx>> ELSE <<>>) \o base_unit
                 ELSE hval
        t == _tokenize(hval1, Specs(unit, base_unit), unit = <<"s">>)
        sum == SumTokens(t.tokens, base_unit, <<0, 0>>)
        scaled == IF tsp[1] # None THEN Norm(<<sum[1], sum[2] - _SIPFX_SCALERS[tsp[1]]>>)
                  ELSE sum
    IN IF tsp[2] # base_unit THEN [exc |-> "Error", ret |-> <<0, 0>>]
       ELSE IF t.exc # "" THEN [exc |-> t.exc, ret |-> <<0, 0>>]
       ELSE [exc |-> "", ret |-> IF integer THEN round(scaled) ELSE scaled]

\* The values, units and target units tried.
HumanSuffixes == {<<>>, <<"s">>, <<"m", "s">>, <<"u", "s">>, <<"n", "s">>, <<"k", "s">>,
                  <<"M", "s">>, <<"m">>, <<"h">>, <<"H", "z">>}
HumanVals == {<<DigitChars[n]>> \o sfx : n \in 1..MaxN, sfx \in HumanSuffixes}
                \cup {<<"1", "m", " ", DigitChars[n], "s">> : n \in 1..MaxN}
HumanUnits == {<<"s">>, <<"m", "s">>}
HumanTargets == {<<>>, <<"s">>, <<"m", "s">>, <<"u", "s">>, <<"n", "s">>, <<"H", "z">>}

HumanInit ==
    /\ st \in [hval : HumanVals, unit : HumanUnits, target_unit : HumanTargets,
               integer : BOOLEAN, done : {FALSE}, exc : {""}, ret : {<<0, 0>>}]
    /\ topo = Unused /\ props = Unused /\ avail = Unused /\ hwval = Unused
    /\ last = Unused /\ prev = Unused /\ ep = Unused /\ own = Unused

ParseHuman ==
    /\ ~st.done
    /\ LET r == parse_human(st.hval, st.unit, st.target_unit, st.integer)
       IN st' = [st EXCEPT !.done = TRUE, !.exc = r.exc, !.ret = r.ret]
    /\ UNCHANGED <<topo, props, avail, hwval, last, prev, ep, own>>

HumanNext == ParseHuman

SpecHuman == HumanInit /\ [][HumanNext]_vars

\* C28: with unit 's', "<n>ms" to microseconds is 1000 * n, "<n>us" to nanoseconds is
\* 1000 * n, and "<n>m" is n minutes, 60 * n seconds: 'm' before 's' is milli, never
\* mega, and a lone 'm' is minutes.
C28_MilliNotMega ==
    (st.done /\ st.unit = <<"s">> /\ st.integer) =>
        \A n \in 1..MaxN :
            /\ (st.hval = <<DigitChars[n], "m", "s">> /\ st.target_unit = <<"u", "s">>)
                   => (st.exc = "" /\ st.ret = Norm(<<1000 * n, 0>>))
            /\ (st.hval = <<DigitChars[n], "u", "s">> /\ st.target_unit = <<"n", "s">>)
                   => (st.exc = "" /\ st.ret = Norm(<<1000 * n, 0>>))
            /\ (st.hval = <<DigitChars[n], "m">> /\ st.target_unit = <<>>)
                   => (st.exc = "" /\ st.ret = Norm(<<60 * n, 0>>))


\* ------------------------------------------------------------------------
\* The feature classes EnergyPerfBias and UncoreRatioLimit (msr/) and EPB.__init__().
\* 'ep' holds the module-level FEATURES dictionaries and the objects constructed so
\* far; 'self.features = FEATURES' makes the attribute a reference to the module's
\* dictionary, so what an object reports is read from there.
\* ------------------------------------------------------------------------

MaxObjs == 3

\* The hosts: CPU models with core, package and CPU scope of EPB, and a host on which
\* _get_clx_ap_adjusted_msr_scope() adjusts the scope to "die".
HostModels == {"ATOM_SILVERMONT", "SANDYBRIDGE", "SKYLAKE_X", "CLX_AP"}
_CORE_SCOPE_CPUS == {"ATOM_SILVERMONT"}
_PACKAGE_SCOPE_CPUS == {"SANDYBRIDGE"}
UncoreModels == {"SKYLAKE_X", "CLX_AP"}

\* FEATURES of msr/EnergyPerfBias.py and of msr/UncoreRatioLimit.py as imported.
FEATURES ==
    [EnergyPerfBias |-> [sname |-> None, iosname |-> None],
     UncoreRatioLimit |-> [sname |-> None, iosname |-> None]]

_get_clx_ap_adjusted_msr_scope(model) == IF model = "CLX_AP" THEN "die" ELSE "package"

\* EnergyPerfBias._set_baseclass_attributes(): the scope by CPU model is stored into
\* the dictionary 'self.features' refers to, which is the module's FEATURES.
EnergyPerfBias_set_baseclass_attributes(feats, model) ==
    LET sname == IF model \in _CORE_SCOPE_CPUS THEN "core"
                 ELSE IF model \in _PACKAGE_SCOPE_CPUS THEN "package"
                 ELSE "CPU"
    IN [feats EXCEPT !.EnergyPerfBias = [sname |-> sname, iosname |-> sname]]

\* UncoreRatioLimit._set_baseclass_attributes().
UncoreRatioLimit_set_baseclass_attributes(feats, model) ==
    [feats EXCEPT !.UncoreRatioLimit.sname = _get_clx_ap_adjusted_msr_scope(model)]

\* What the object reports: 'self.features[fname]["sname"]' and '["iosname"]' for a
\* feature class, the attribute 'sname' copied by EPB.__init__() for an EPB object.
Reports(feats, o) ==
    IF o.cls = "EPB" THEN [sname |-> o.sname, iosname |-> o.sname]
    ELSE feats[o.cls]

FeatInit ==
    /\ ep = [FEATURES |-> FEATURES, objs |-> <<>>]
    /\ topo = Unused /\ props = Unused /\ avail = Unused /\ hwval = Unused
    /\ last = Unused /\ prev = Unused /\ own = Unused /\ st = Unused

FeatRest == <<topo, props, avail, hwval, last, prev, own, st>>

FeatNew(cls, model, feats) ==
    LET o == [cls |-> cls, model |-> model,
              sname |-> IF cls = "EPB" THEN feats.EnergyPerfBias.sname ELSE None]
    IN [FEATURES |-> feats,
        objs |-> Append(ep.objs, [cls |-> o.cls, model |-> o.model, sname |-> o.sname,
                                  first |-> Reports(feats, o)])]

NewEnergyPerfBias ==
    /\ Len(ep.objs) < MaxObjs
    /\ \E model \in HostModels :
         ep' = FeatNew("EnergyPerfBias", model,
                       EnergyPerfBias_set_baseclass_attributes(ep.FEATURES, model))
    /\ UNCHANGED FeatRest

NewUncoreRatioLimit ==
    /\ Len(ep.objs) < MaxObjs
    /\ \E model \in UncoreModels :
         ep' = FeatNew("UncoreRatioLimit", model,
                       UncoreRatioLimit_set_baseclass_attributes(ep.FEATURES, model))
    /\ UNCHANGED FeatRest

\* EPB.__init__(): 'self.sname = self._get_epb_msr().features["epb"]["sname"]'.
NewEPB ==
    /\ Len(ep.objs) < MaxObjs
    /\ \E model \in HostModels :
         ep' = FeatNew("EPB", model,
                       EnergyPerfBias_set_baseclass_attributes(ep.FEATURES, model))
    /\ UNCHANGED FeatRest

FeatNext ==
    \/ NewEnergyPerfBias
    \/ NewUncoreRatioLimit
    \/ NewEPB

SpecFeat == FeatInit /\ [][FeatNext]_vars

\* C29: every object keeps reporting the scope and the I/O scope it reported when it
\* was constructed, whatever objects are constructed later for other CPU models.
C29_NoInterference ==
    \A i \in 1..Len(ep.objs) : Reports(ep.FEATURES, ep.objs[i]) = ep.objs[i].first


\* ------------------------------------------------------------------------
\* The power limits of Power (Power._do_set_prop() for 'ppl1' and 'ppl2') and
\* set_props() of the tool's setter on a Power object.  st.hw[pkg] are the limits
\* in the register of a package, st.view[pkg] the limits as read through the MSR
\* object, which differ from the register while a transaction holds writes, and
\* st.intrans tells whether a transaction is open.  Values are whole watts.
\* ------------------------------------------------------------------------

PwCPUs == {0, 1, 2}
PwPkgs == {0, 1}
PkgOf(cpu) == IF cpu = 2 THEN 1 ELSE 0

\* The TDP of each package and the values tried for the limits.
PwTdp == [pkg \in PwPkgs |-> IF pkg = 0 THEN 2 ELSE 16]
PwVals == {1, 4, 16}
PwPnames == {"ppl1", "ppl2"}

\* The CPU lists a set is called with: whole packages, in any order.
PwCpuLists == {<<0, 1>>, <<2>>, <<0, 1, 2>>, <<2, 0, 1>>, <<0, 2, 1>>}

\* read_cpu_feature() of the limits object: the value as of the last write.
ppl_read_cpu_feature(m, pname, cpu) == m.view[PkgOf(cpu)][pname]

\* write_cpu_feature() of the limits object: the write reaches the register unless a transaction is open.
ppl_write_cpu_feature(m, pname, val, cpu) ==
    [m EXCEPT !.view[PkgOf(cpu)][pname] = val,
              !.hw = IF m.intrans THEN @ ELSE [@ EXCEPT ![PkgOf(cpu)][pname] = val],
              !.writes = Append(@, [pname |-> pname, val |-> val, cpu |-> cpu])]

\* Mutant: the value is not compared with the other limit.
ppl_check_norder(m, pname, fval, cpu) ==
    LET tdp == PwTdp[PkgOf(cpu)]
        maxval == IF pname = "ppl1" THEN tdp ELSE tdp * 4
    IN fval > maxval \/ 8 * fval < tdp

\* The checks of _do_set_prop() for one CPU: TRUE when the value is rejected.  'minval'
\* is tdp / 8, so 'fval < minval' is '8 * fval < tdp'.
ppl_check(m, pname, fval, cpu) ==
    LET tdp == PwTdp[PkgOf(cpu)]
        maxval == IF pname = "ppl1" THEN tdp ELSE tdp * 4
    IN \/ pname = "ppl1" /\ fval > ppl_read_cpu_feature(m, "ppl2", cpu)
       \/ pname = "ppl2" /\ fval < ppl_read_cpu_feature(m, "ppl1", cpu)
       \/ fval > maxval \/ 8 * fval < tdp

\* Power._do_set_prop() for 'ppl1' and 'ppl2': check and write CPU by CPU.
RECURSIVE _do_set_prop_ppl(_, _, _, _)
_do_set_prop_ppl(m, pname, val, cpus) ==
    IF cpus = <<>> THEN [m EXCEPT !.exc = ""]
    ELSE IF ppl_check(m, pname, val, Head(cpus)) THEN [m EXCEPT !.exc = "Error"]
    ELSE _do_set_prop_ppl(ppl_write_cpu_feature(m, pname, val, Head(cpus)), pname, val,
                          Tail(cpus))

\* Mutant: every CPU is checked before the first one is written.
_set_prop_cpus_ppl_atomic(m, pname, val, cpus) ==
    IF \E i \in 1..Len(cpus) : ppl_check(m, pname, val, cpus[i])
    THEN [m EXCEPT !.exc = "Error"]
    ELSE _do_set_prop_ppl(m, pname, val, cpus)

\* Power._set_prop_cpus() for 'ppl1' and 'ppl2'.
_set_prop_cpus_ppl(m, pname, val, cpus) == _do_set_prop_ppl(m, pname, val, cpus)

\* The loop of set_props() over the entries of 'spinfo'; a set that raises ends it.
RECURSIVE PwSetItems(_, _, _)
PwSetItems(m, items, cpus) ==
    IF items = <<>> THEN m
    ELSE LET r == _set_prop_cpus_ppl(m, Head(items)[1], Head(items)[2], cpus)
         IN IF r.exc # "" THEN r ELSE PwSetItems(r, Tail(items), cpus)

\* _PropsSetter.set_props() on the Power object: the start of the transaction, the
\* sets, and the commit, which is reached only when no set raised.
power_set_props(m, spinfo, cpus) ==
    IF m.intrans THEN [m EXCEPT !.exc = "Error"]
    ELSE LET r == PwSetItems([m EXCEPT !.intrans = TRUE], spinfo, cpus)
         IN IF r.exc # "" THEN r
            ELSE [r EXCEPT !.hw = r.view, !.intrans = FALSE]

\* The limits the hardware can hold at the start: ppl1 is not above ppl2.
PwLimits == {l \in [ppl1 : PwVals, ppl2 : PwVals] : l.ppl1 <= l.ppl2}

PwSpinfos ==
    {<< <<p, v>> >> : p \in PwPnames, v \in PwVals}
        \cup {<< <<p, v>>, <<q, w>> >> : p \in PwPnames, q \in PwPnames, v \in PwVals,
                                          w \in PwVals}

PwInit ==
    /\ \E hw \in [PwPkgs -> PwLimits] :
         st = [hw |-> hw, view |-> hw, intrans |-> FALSE, writes |-> <<>>, exc |-> "",
               op |-> "none", pname |-> "", val |-> 0, cpus |-> <<>>, pre |-> hw]
    /\ topo = Unused /\ props = Unused /\ avail = Unused /\ hwval = Unused
    /\ last = Unused /\ prev = Unused /\ ep = Unused /\ own = Unused

PwRest == <<topo, props, avail, hwval, last, prev, ep, own>>

PwCall(op, pname, val, cpus) ==
    [st EXCEPT !.op = op, !.pname = pname, !.val = val, !.cpus = cpus, !.pre = st.view,
               !.writes = <<>>, !.exc = ""]

\* Power._set_prop_cpus() of 'ppl1' or 'ppl2'.
PwSet ==
    /\ \E pname \in PwPnames, val \in PwVals, cpus \in PwCpuLists :
         st' = _set_prop_cpus_ppl(PwCall("set", pname, val, cpus), pname, val, cpus)
    /\ UNCHANGED PwRest

PwSetProps ==
    /\ \E spinfo \in PwSpinfos, cpus \in {<<0, 1>>, <<0, 1, 2>>, <<2, 0, 1>>} :
         /\ Len(spinfo) = 2 => spinfo[1][1] # spinfo[2][1]
         /\ st' = power_set_props(PwCall("set_props", "", 0, cpus), spinfo, cpus)
    /\ UNCHANGED PwRest

PwNext ==
    \/ PwSet
    \/ PwSetProps

SpecPower == PwInit /\ [][PwNext]_vars

\* Whether 'val' for 'pname' of the CPU breaks a rule in the state 'lim' of the limits.
PwViolates(lim, pname, val, cpu) ==
    LET tdp == PwTdp[PkgOf(cpu)]
    IN \/ 8 * val < tdp
       \/ pname = "ppl1" /\ (val > tdp \/ val > lim[PkgOf(cpu)].ppl2)
       \/ pname = "ppl2" /\ (val > 4 * tdp \/ val < lim[PkgOf(cpu)].ppl1)

MaxOuts == 3

DictHas(d, k) == \E i \in 1..Len(d) : d[i][1] = k
DictGet(d, k) == IF DictHas(d, k) THEN d[CHOOSE i \in 1..Len(d) : d[i][1] = k][2] ELSE None
DictKeys(d) == [i \in 1..Len(d) |-> d[i][1]]
RECURSIVE DictDel(_, _)
DictDel(d, k) == IF d = <<>> THEN d
                 ELSE IF Head(d)[1] = k THEN Tail(d)
                 ELSE <<Head(d)>> \o DictDel(Tail(d), k)

\* The frequency properties: the 'min' name, the 'max' name and the 'freq_type'.
FreqPairs == {<<"min_freq", "max_freq", "core">>,
              <<"min_freq_hw", "max_freq_hw", "core_hw">>,
              <<"min_uncore_freq", "max_uncore_freq", "uncore">>}
FreqPnames == {t[1] : t \in FreqPairs} \cup {t[2] : t \in FreqPairs}
PairOf(pname) == CHOOSE t \in FreqPairs : pname = t[1] \/ pname = t[2]

\* 'set(self._pobj.props)' of a P-states and of a C-states object.
PStatesProps == FreqPnames \cup {"turbo", "governor"}
KnownProps(kind) == IF kind = "pstates" THEN PStatesProps ELSE DOMAIN StProps

\* One call of the properties object.
pobj_call(s, meth, pname, val, val2, cpus, step) ==
    LET exc == IF s.outs = <<>> THEN "" ELSE Head(s.outs)
    IN [s EXCEPT !.calls = Append(@, [meth |-> meth, pname |-> pname, val |-> val,
                                      val2 |-> val2, cpus |-> cpus, step |-> step,
                                      exc |-> exc]),
                 !.outs = IF @ = <<>> THEN @ ELSE Tail(@),
                 !.exc = exc]

\* start_transaction() and commit_transaction() of the MSR object.
msr_call(s, meth) == [s EXCEPT !.msrlog = Append(@, meth)]

\* Mutant: the items set are not deleted from the dictionary.
PropsSetter_set_prop_nodel(s, pname, cpus) ==
    IF ~DictHas(s.copy, pname) THEN s
    ELSE IF pname \notin FreqPnames
    THEN pobj_call(s, "set_prop", pname, DictGet(s.copy, pname), None, cpus, "set")
    ELSE pobj_call(s, "set_freq_props", PairOf(pname)[3], DictGet(s.copy, PairOf(pname)[1]),
                   DictGet(s.copy, PairOf(pname)[2]), cpus, "set")

\* _PropsSetter._set_prop(); the dictionary it is given is s.copy.
PropsSetter_set_prop(s, pname, cpus) ==
    IF ~DictHas(s.copy, pname) THEN s
    ELSE IF pname \notin FreqPnames
    THEN LET r == pobj_call(s, "set_prop", pname, DictGet(s.copy, pname), None, cpus, "set")
         IN IF r.exc # "" THEN r ELSE [r EXCEPT !.copy = DictDel(@, pname)]
    ELSE LET t == PairOf(pname)
             min_freq == DictGet(s.copy, t[1])
             max_freq == DictGet(s.copy, t[2])
             r == pobj_call(s, "set_freq_props", t[3], min_freq, max_freq, cpus, "set")
         IN IF r.exc # "" THEN r
            ELSE [r EXCEPT !.copy = DictDel(DictDel(@, t[1]), t[2])]

\* 'for pname in list(spinfo): self._set_prop(spinfo_copy, pname, cpus, mnames)'.
RECURSIVE SetPnames(_, _, _)
SetPnames(s, pnames, cpus) ==
    IF pnames = <<>> \/ s.exc # "" THEN s
    ELSE SetPnames(PropsSetter_set_prop(s, Head(pnames), cpus), Tail(pnames), cpus)

\* _PropsSetter.set_props(): s.spinfo is the caller's dictionary.
PropsSetter_set_props(s, spinfo, cpus) ==
    LET s1 == IF s.hasmsr THEN msr_call(s, "start_transaction") ELSE s
        s2 == SetPnames([s1 EXCEPT !.spinfo = spinfo, !.copy = spinfo], DictKeys(spinfo), cpus)
    IN IF s2.exc # "" THEN s2
       ELSE IF s.hasmsr THEN msr_call(s2, "commit_transaction") ELSE s2

\* A loaded file: whether it is a dictionary, and its entries.  The 'form' of an entry
\* is "ok", "not_list" (the value of the key is not a list), "not_dict" (the list
\* element is not a dictionary), "no_value" or "no_cpus" (the key is missing).
YEntry(key, form, value, cpus) == [key |-> key, form |-> form, value |-> value, cpus |-> cpus]
YForms == {"ok", "not_list", "not_dict", "no_value", "no_cpus"}

\* Mutant: only the keys are checked.
PropsSetter_validate_loaded_data_keys(ydata, known_ykeys) ==
    IF \E i \in 1..Len(ydata.entries) : ydata.entries[i].key \notin known_ykeys
    THEN "Error" ELSE ""

\* _PropsSetter._validate_loaded_data().
PropsSetter_validate_loaded_data(ydata, known_ykeys) ==
    IF ~ydata.isdict THEN "Error"
    ELSE IF \E i \in 1..Len(ydata.entries) :
               \/ ydata.entries[i].form = "not_list"
               \/ ydata.entries[i].key \notin known_ykeys
               \/ ydata.entries[i].form = "not_dict"
               \/ ydata.entries[i].form \in {"no_value", "no_cpus"}
    THEN "Error"
    ELSE ""

\* Mutant: after ErrorFreqOrder the value is set again before the other bound is widened.
PropsSetter_restore_prop_retryfirst(s, pname, val, cpus) ==
    LET r == pobj_call(s, "set_prop", pname, val, None, cpus, "first")
        t == PairOf(pname)
        other == IF pname = t[1] THEN t[2] ELSE t[1]
        wide == IF pname = t[1] THEN "max" ELSE "min"
    IN IF r.exc # "ErrorFreqOrder" \/ pname \notin FreqPnames THEN r
       ELSE LET w == pobj_call(r, "set_prop", pname, val, None, cpus, "retry")
            IN IF w.exc # "" THEN w
               ELSE pobj_call(w, "set_prop", other, wide, None, cpus, "widen")

\* _PropsSetter._restore_prop().
PropsSetter_restore_prop(s, pname, val, cpus) ==
    LET r == pobj_call(s, "set_prop", pname, val, None, cpus, "first")
        t == PairOf(pname)
    IN IF r.exc # "ErrorFreqOrder" THEN r
       ELSE IF pname \notin FreqPnames THEN r
       ELSE IF pname = t[1]
       THEN LET w == pobj_call(r, "set_prop", t[2], "max", None, cpus, "widen")
            IN IF w.exc # "" THEN w
               ELSE pobj_call(w, "set_prop", t[1], val, None, cpus, "retry")
       ELSE LET w == pobj_call(r, "set_prop", t[1], "min", None, cpus, "widen")
            IN IF w.exc # "" THEN w
               ELSE pobj_call(w, "set_prop", t[2], val, None, cpus, "retry")

RECURSIVE RestorePinfos(_, _)
RestorePinfos(s, entries) ==
    IF entries = <<>> \/ s.exc # "" THEN s
    ELSE RestorePinfos(PropsSetter_restore_prop(s, Head(entries).key, Head(entries).value,
                                                parse_cpus_string(Head(entries).cpus)),
                       Tail(entries))

\* _PropsSetter._restore_props().
PropsSetter_restore_props(s, entries) ==
    LET s1 == IF s.hasmsr THEN msr_call(s, "start_transaction") ELSE s
        s2 == RestorePinfos(s1, entries)
    IN IF s2.exc # "" THEN s2
       ELSE IF s.hasmsr THEN msr_call(s2, "commit_transaction") ELSE s2

\* CStatesSetter._restore_cstates().
RECURSIVE CStatesSetter_restore_cstates(_, _)
CStatesSetter_restore_cstates(s, entries) ==
    IF entries = <<>> \/ s.exc # "" THEN s
    ELSE LET yval == Head(entries)
             cpus == parse_cpus_string(yval.cpus)
             r == IF yval.value = "on"
                  THEN pobj_call(s, "enable_cstates", yval.key, None, None, cpus, "set")
                  ELSE IF yval.value = "off"
                  THEN pobj_call(s, "disable_cstates", yval.key, None, None, cpus, "set")
                  ELSE [s EXCEPT !.exc = "Error"]
         IN CStatesSetter_restore_cstates(r, Tail(entries))

\* PStatesSetter.restore() and PowerSetter.restore().
PStatesSetter_restore(s, ydata) ==
    LET e == PropsSetter_validate_loaded_data(ydata, KnownProps(s.kind))
    IN IF e # "" THEN [s EXCEPT !.exc = e]
       ELSE PropsSetter_restore_props(s, ydata.entries)

\* CStatesSetter.restore().
CStatesSetter_restore(s, ydata) ==
    LET csnames == CSNAMES
        e == PropsSetter_validate_loaded_data(ydata, KnownProps(s.kind) \cup csnames)
        s1 == CStatesSetter_restore_cstates(s, SelectSeq(ydata.entries, IsCState))
    IN IF e # "" THEN [s EXCEPT !.exc = e]
       ELSE IF s1.exc # "" THEN s1
       ELSE PropsSetter_restore_props(s1, SelectSeq(ydata.entries, IsProp))

\* The setter as constructed for a P-states or a C-states object.
CallSetter(kind, hasmsr) ==
    [kind |-> kind, hasmsr |-> hasmsr, exc |-> "", calls |-> <<>>, msrlog |-> <<>>,
     outs |-> <<>>, copy |-> <<>>, spinfo |-> <<>>, op |-> "none", arg |-> <<>>,
     file |-> [isdict |-> TRUE, entries |-> <<>>]]

CallInit ==
    /\ \E kind \in {"pstates", "cstates"}, hasmsr \in BOOLEAN : st = CallSetter(kind, hasmsr)
    /\ StUnused

\* The outcomes of the calls of the properties object: the calls after the last
\* outcome listed raise nothing.
Outcomes == UNION {[1..n -> {"", "Error", "ErrorFreqOrder"}] : n \in 0..MaxOuts}

\* The dictionaries passed to set_props(): up to three of these items, in any order.
SpinfoItems == {<<"min_freq", "1">>, <<"max_freq", "2">>, <<"max_freq_hw", "3">>,
                <<"min_uncore_freq", "1">>, <<"max_uncore_freq", "2">>, <<"turbo", "on">>,
                <<"governor", "teo">>}
CallSpinfos ==
    {d \in UNION {[1..n -> SpinfoItems] : n \in 1..3} :
        \A i, j \in 1..Len(d) : i # j => d[i][1] # d[j][1]}

\* The loaded files: up to two entries, well-formed or not, or not a dictionary.
YEntries(kind) ==
    IF kind = "pstates"
    THEN {YEntry("min_freq", "ok", "2", rangify({0, 1, 2})),
          YEntry("max_freq", "ok", "1", rangify({0, 1, 2})),
          YEntry("max_uncore_freq", "ok", "2", rangify({0})),
          YEntry("turbo", "ok", "on", rangify({0, 1, 2})),
          YEntry("bogus", "ok", "on", rangify({0}))}
         \cup {YEntry("min_freq", form, "2", rangify({1})) : form \in YForms \ {"ok"}}
    ELSE {YEntry("C6", "ok", "on", rangify({0, 1, 2})),
          YEntry("C6", "ok", "off", rangify({2})),
          YEntry("C6", "ok", "bogus", rangify({0})),
          YEntry("c1_demotion", "ok", "on", rangify({0, 1, 2})),
          YEntry("bogus", "ok", "on", rangify({0}))}
         \cup {YEntry("C6", form, "on", rangify({1})) : form \in YForms \ {"ok"}}
YFiles(kind) ==
    {[isdict |-> TRUE, entries |-> e] : e \in UNION {[1..n -> YEntries(kind)] : n \in 0..2}}
        \cup {[isdict |-> FALSE, entries |-> <<>>]}

CallDone(op, r) == [r EXCEPT !.op = op, !.outs = <<>>, !.copy = <<>>]

CallSetProps ==
    /\ st.op = "none"
    /\ \E spinfo \in CallSpinfos, outs \in Outcomes :
         st' = CallDone("set_props",
                        [PropsSetter_set_props([st EXCEPT !.outs = outs], spinfo, StCPUs)
                            EXCEPT !.arg = spinfo])
    /\ UNCHANGED StRest

CallRestore ==
    /\ st.op = "none"
    /\ \E ydata \in YFiles(st.kind), outs \in Outcomes :
         st' = CallDone("restore",
                        [(IF st.kind = "pstates"
                          THEN PStatesSetter_restore([st EXCEPT !.outs = outs], ydata)
                          ELSE CStatesSetter_restore([st EXCEPT !.outs = outs], ydata))
                            EXCEPT !.file = ydata])
    /\ UNCHANGED StRest

CallNext ==
    \/ CallSetProps
    \/ CallRestore

SpecCalls == CallInit /\ [][CallNext]_vars

\* A call of the log without its outcome.
CallOf(meth, pname, val, val2) == [meth |-> meth, pname |-> pname, val |-> val, val2 |-> val2]
Issued(c) == CallOf(c.meth, c.pname, c.val, c.val2)

\* The calls set_props() is to issue for the dictionary 'd': one set_prop() per
\* property that is not a frequency, one set_freq_props() per frequency pair at the
\* place of the member that comes first, with None for a member that is absent.
RECURSIVE ExpectedCalls(_, _)
ExpectedCalls(d, i) ==
    IF i > Len(d) THEN <<>>
    ELSE LET pname == d[i][1]
         IN (IF pname \notin FreqPnames THEN <<CallOf("set_prop", pname, d[i][2], None)>>
             ELSE IF \E j \in 1..(i - 1) : d[j][1] \in FreqPnames /\ PairOf(d[j][1]) = PairOf(pname)
             THEN <<>>
             ELSE <<CallOf("set_freq_props", PairOf(pname)[3], DictGet(d, PairOf(pname)[1]),
                           DictGet(d, PairOf(pname)[2]))>>)
            \o ExpectedCalls(d, i + 1)

\* C22: set_props() issues exactly the expected calls, in order, when none of them
\* raises, and the first ones of them up to the call that raises otherwise; the
\* dictionary of the caller is as it was.
C22_EachEntryOnce ==
    st.op = "set_props" =>
        LET exp == ExpectedCalls(st.arg, 1)
        IN /\ st.spinfo = st.arg
           /\ Len(st.calls) <= Len(exp)
           /\ \A i \in 1..Len(st.calls) : Issued(st.calls[i]) = exp[i]
           /\ st.exc = "" => Len(st.calls) = Len(exp)

\* set_props() was given the maximum frequency first and the minimum frequency last,
\* with another property in between: one set_freq_props() with both, then the set.
C22_Witness ==
    /\ st.op = "set_props" /\ st.exc = "" /\ Len(st.arg) = 3 /\ Len(st.calls) = 2
    /\ st.arg[1][1] = "max_freq" /\ st.arg[3][1] = "min_freq"
    /\ st.calls[1] = [meth |-> "set_freq_props", pname |-> "core", val |-> "1", val2 |-> "2",
                      cpus |-> StCPUs, step |-> "set", exc |-> ""]
    /\ st.calls[2].meth = "set_prop"

\* C23: when the first set of a restored entry raises ErrorFreqOrder, then for a
\* minimum frequency the next call sets the matching maximum to "max" and the one
\* after it sets the minimum to the value; for a maximum frequency the next call sets
\* the matching minimum to "min" and the one after it sets the maximum to the value;
\* for any other property the exception leaves restore() and no call follows.
C23_WidenThenRetry ==
    st.op = "restore" =>
        \A i \in 1..Len(st.calls) :
            LET c == st.calls[i]
            IN (c.meth = "set_prop" /\ c.step = "first" /\ c.exc = "ErrorFreqOrder") =>
                 IF c.pname \notin FreqPnames
                 THEN i = Len(st.calls) /\ st.exc = "ErrorFreqOrder"
                 ELSE LET t == PairOf(c.pname)
                          ismin == c.pname = t[1]
                      IN /\ i + 1 <= Len(st.calls)
                         /\ Issued(st.calls[i + 1]) =
                               CallOf("set_prop", IF ismin THEN t[2] ELSE t[1],
                                      IF ismin THEN "max" ELSE "min", None)
                         /\ st.calls[i + 1].cpus = c.cpus
                         /\ st.calls[i + 1].exc = "" =>
                               /\ i + 2 <= Len(st.calls)
                               /\ Issued(st.calls[i + 2]) = Issued(c)
                               /\ st.calls[i + 2].cpus = c.cpus
                         /\ st.calls[i + 1].exc # "" =>
                               i + 1 = Len(st.calls) /\ st.exc = st.calls[i + 1].exc

\* A restore in which the set of the minimum frequency raised ErrorFreqOrder, was
\* retried after the maximum was set to "max", and the next entry was restored.
C23_Witness ==
    /\ st.op = "restore" /\ st.exc = "" /\ Len(st.calls) = 4
    /\ st.calls[1].pname = "min_freq" /\ st.calls[1].exc = "ErrorFreqOrder"
    /\ st.calls[2].pname = "max_freq" /\ st.calls[2].val = "max"
    /\ st.calls[3].pname = "min_freq" /\ st.calls[3].val = "2" /\ st.calls[3].step = "retry"
    /\ st.calls[4].step = "first"

\* Whether a loaded file is malformed for a setter of this kind.
Malformed(ydata, kind) ==
    \/ ~ydata.isdict
    \/ \E i \in 1..Len(ydata.entries) :
          \/ ydata.entries[i].form # "ok"
          \/ ydata.entries[i].key \notin
                 (KnownProps(kind) \cup IF kind = "cstates" THEN CSNAMES ELSE {})

\* C24: restore() of a malformed file raises Error having called neither the
\* properties object nor start_transaction().
C24_ValidateFirst ==
    (st.op = "restore" /\ Malformed(st.file, st.kind)) =>
        /\ st.exc = "Error"
        /\ st.calls = <<>>
        /\ st.msrlog = <<>>

\* The malformed entry came second, after an entry that could have been restored.
C24_Witness ==
    /\ st.op = "restore" /\ st.hasmsr /\ st.exc = "Error" /\ st.calls = <<>>
    /\ Len(st.file.entries) = 2
    /\ st.file.entries[1].form = "ok"
    /\ st.file.entries[1].key \in KnownProps(st.kind) \cup CSNAMES
    /\ st.file.entries[2].form = "no_cpus"

============================================================================
